---- MODULE Spec2Model ----
(***************************************************************************)
(* paperd.ink TRMNL firmware: the client state machine (trmnl_client.cpp), *)
(* the main program (main.cpp) and the image acquisition path.             *)
(*                                                                         *)
(* The firmware is single threaded.  A client method is modelled as an     *)
(* operator that takes the record of everything the method can touch (the  *)
(* object's fields, the preference store, the SD card, the WiFi status and *)
(* the logs of what was sent to the network and to the panel) and returns  *)
(* the record after the call; an action of the main program applies the    *)
(* methods its handler calls, in order, and commits the result.            *)
(*                                                                         *)
(* Abstractions: a string is kept only as far as the code looks at it      *)
(* (empty or not, equal or not); an image body is an identifier and a      *)
(* length, a buffer is a prefix of a body; millis() timers are a free      *)
(* choice of "elapsed or not"; the texts of lastError and of the serial    *)
(* log are left out; the macros of secrets.h are a choice made at Init.    *)
(***************************************************************************)
EXTENDS Integers, Sequences, FiniteSets, TLC

(***************************************************************************)
(* Program constants                                                       *)
(***************************************************************************)
MAX_IMAGE_SIZE == 50000
FALLBACK_ALLOC == 65536
HEAP_MARGIN == 32768
maxRetries == 3
DEEP_SLEEP_DURATION_SECONDS == 1800
DISPLAY_WIDTH == 400
DISPLAY_HEIGHT == 300
CACHE_ENABLED == TRUE

(***************************************************************************)
(* Bounds of the model                                                     *)
(***************************************************************************)
\* consecutiveErrors is counted up to MaxErrors; the value MaxErrors stands
\* for "MaxErrors or more" and is above the threshold handleSystemStates()
\* compares the counter with
MaxErrors == 6
\* sizes are drawn from the points within Delta of each boundary the code
\* compares against
Delta == 1

(***************************************************************************)
(* Values                                                                  *)
(***************************************************************************)
STATE_UNINITIALIZED == "STATE_UNINITIALIZED"
STATE_WIFI_SETUP == "STATE_WIFI_SETUP"
STATE_DEVICE_SETUP == "STATE_DEVICE_SETUP"
STATE_OPERATIONAL == "STATE_OPERATIONAL"
STATE_ERROR == "STATE_ERROR"
STATE_OFFLINE == "STATE_OFFLINE"

DeviceState == {STATE_UNINITIALIZED, STATE_WIFI_SETUP, STATE_DEVICE_SETUP,
                STATE_OPERATIONAL, STATE_ERROR, STATE_OFFLINE}

\* a JSON field: Absent when the document has no such key, else Some(value)
Absent == <<>>
Some(v) == <<v>>

\* the endpoints a GET goes to
SetupUrl == "/api/setup"
DisplayUrl == "/api/display"

VARIABLES
    pc,                 \* position of the main program
    currentState,       \* TRMNLClient::currentState
    apiKey,             \* TRMNLClient::apiKey
    friendlyId,         \* TRMNLClient::friendlyId
    refreshRate,        \* TRMNLClient::refreshRate
    lastImageFilename,  \* TRMNLClient::lastImageFilename
    consecutiveErrors,  \* TRMNLClient::consecutiveErrors
    configPortalActive, \* TRMNLClient::configPortalActive
    prefs,              \* PaperdInkHardware::preferences (NVS), key -> value
    sdCardAvailable,    \* PaperdInkHardware::sdCardAvailable
    sdFiles,            \* files on the SD card, path -> content
    wifiConnected,      \* WiFi.status() == WL_CONNECTED
    wifiBegun,          \* WiFi.begin() was called since boot
    invertDisplayFlag,  \* PaperdInkHardware::invertDisplayFlag
    forceRefresh,       \* main.cpp forceRefresh
    http,               \* GETs sent during the last step, in order
    epd,                \* commands given to the panel during the last step
    last,               \* what the last step called and what came back
    inp,                \* what the network answered in the last step
    resetPending,       \* a reset_firmware signal not yet followed by setup
    sleptOn,            \* the file cached by the refresh that ended in the
                        \* last deep sleep, until the next refresh is made
    secrets,            \* which macros secrets.h defines in this build
    now,                \* millis(): milliseconds since boot
    lastReconnectAttempt,   \* the static of handleSystemStates()
    polls,              \* the millis() of every look at the network that
                        \* the STATE_OFFLINE branch took since boot
    pngCtx              \* the PngDrawContext displayImage hands to the
                        \* decoder callback

vars == <<pc, currentState, apiKey, friendlyId, refreshRate, lastImageFilename,
          consecutiveErrors, configPortalActive, prefs,
          sdCardAvailable, sdFiles, wifiConnected, wifiBegun,
          invertDisplayFlag, forceRefresh, http, epd, last, inp,
          resetPending, sleptOn, secrets, now, lastReconnectAttempt, polls,
          pngCtx>>

(***************************************************************************)
(* Small helpers                                                           *)
(***************************************************************************)
Min(a, b) == IF a < b THEN a ELSE b

\* ArduinoJson's  variant | fallback : the variant's value unless it is null
Or(v, fallback) == IF v # Absent THEN v[1] ELSE fallback

\* an int converted to uint32_t, as its two 16-bit halves
Uint32(v) == [hi |-> (v \div 65536) % 65536, lo |-> v % 65536]

\* no buffer (nullptr, size 0)
NoBuffer == [id |-> "", len |-> 0, total |-> 0, fmt |-> ""]

\* one GET as the log keeps it: the method that sent it, where to, the status
Get(from, url, code) == [from |-> from, url |-> url, code |-> code]

\* one panel command as the log keeps it; what is the buffer drawn, if any
Cmd(name, what) == [cmd |-> name, buf |-> what]

(***************************************************************************)
(* PaperdInkHardware: preferences and SD card                              *)
(***************************************************************************)
saveString(c, key, value) == [c EXCEPT !.prefs = (key :> value) @@ c.prefs]

loadString(c, key, defaultValue) ==
    IF key \in DOMAIN c.prefs THEN c.prefs[key] ELSE defaultValue

saveInt(c, key, value) == [c EXCEPT !.prefs = (key :> value) @@ c.prefs]

loadInt(c, key, defaultValue) ==
    IF key \in DOMAIN c.prefs THEN c.prefs[key] ELSE defaultValue

clearPreferences(c) == [c EXCEPT !.prefs = <<>>]

\* writeFile: the file then holds exactly the bytes given; opens: SD.open
\* gives a file (it does not when the directory of path is missing)
writeFile(c, path, data, opens) ==
    IF ~c.sdCardAvailable THEN [c EXCEPT !.ret = FALSE]
    ELSE IF ~opens THEN [c EXCEPT !.ret = FALSE]
    ELSE [c EXCEPT !.sdFiles = (path :> data) @@ c.sdFiles, !.ret = TRUE]

fileExists(c, path) == c.sdCardAvailable /\ path \in DOMAIN c.sdFiles

\* deleteFile: SD.remove(path) takes away the file of exactly that name
deleteFile(c, path) ==
    IF ~c.sdCardAvailable THEN c
    ELSE [c EXCEPT !.sdFiles =
             [p \in DOMAIN c.sdFiles \ {path} |-> c.sdFiles[p]]]

\* PaperdInkHardware::factoryReset
factoryReset(c) ==
    [deleteFile(clearPreferences(c), "/cache") EXCEPT !.restart = TRUE]

\* readFile: at most maxSize bytes of the file; out is what the buffer holds
readFile(c, path, maxSize) ==
    IF ~c.sdCardAvailable \/ path \notin DOMAIN c.sdFiles
    THEN [c EXCEPT !.ret = FALSE, !.buf = NoBuffer]
    ELSE LET file == c.sdFiles[path]
             readSize == Min(file.len, maxSize)
         IN [c EXCEPT !.buf = [file EXCEPT !.len = readSize],
                      !.ret = readSize > 0]

(***************************************************************************)
(* PaperdInkHardware: the panel                                            *)
(***************************************************************************)
raw1bppSize == (DISPLAY_WIDTH * DISPLAY_HEIGHT) \div 8

clearDisplay(c) == [c EXCEPT !.epd = @ \o <<Cmd("clear", NoBuffer)>>]

\* displayText only queues the text; updateDisplay draws the queue
displayText(c, text) == [c EXCEPT !.texts = Append(@, text)]

updateDisplay(c) ==
    [c EXCEPT !.epd = @ \o <<Cmd("fillScreen", NoBuffer)>>
                        \o [i \in 1..Len(c.texts) |-> Cmd(c.texts[i], NoBuffer)]
                        \o <<Cmd("flush", NoBuffer)>>,
              !.texts = <<>>]

loadBool(c, key, defaultValue) ==
    IF key \in DOMAIN c.prefs THEN c.prefs[key] ELSE defaultValue

\* a PngDrawContext before displayImage has filled it in. A float is kept as
\* [m, k], which stands for m / 2^k with 2^23 <= m < 2^24 (24 bits, as the
\* single precision of the chip keeps them)
NoPngCtx ==
    [x0 |-> 0, y0 |-> 0, tW |-> 0, tH |-> 0,
     sX |-> [m |-> 8388608, k |-> 23], sY |-> [m |-> 8388608, k |-> 23],
     invert |-> FALSE]

\* the float quotient n / d of two ints, n, d > 0: m is floor(n * 2^k / d)
\* and r what is left of n * 2^k; bits are added until there are 24, then
\* the quotient is rounded to nearest, ties to even
RECURSIVE F32Quotient(_, _, _, _)
F32Quotient(m, r, d, k) ==
    IF m >= 8388608
    THEN LET up == 2 * r > d \/ (2 * r = d /\ m % 2 = 1)
         IN IF up /\ m + 1 = 16777216
            THEN [m |-> 8388608, k |-> k - 1]
            ELSE [m |-> IF up THEN m + 1 ELSE m, k |-> k]
    ELSE IF 2 * r >= d
    THEN F32Quotient(2 * m + 1, 2 * r - d, d, k + 1)
    ELSE F32Quotient(2 * m, 2 * r, d, k + 1)

\* (int)floorf(p * s) for an int p in 1..32767 and a float s: the product
\* p * s.m is kept in two parts, hi * 4096 + lo, rounded to 24 bits (nearest,
\* ties to even), and what is left of the fraction is cut off
F32FloorMul(p, s) ==
    LET hi == p * (s.m \div 4096) + (p * (s.m % 4096)) \div 4096
        lo == (p * (s.m % 4096)) % 4096
        x == CHOOSE n \in 0..16 : 2^(11 + n) <= hi /\ hi < 2^(12 + n)
        kept == IF x <= 12 THEN hi * 2^(12 - x) + lo \div 2^x
                ELSE hi \div 2^(x - 12)
        over == IF x = 0 THEN 0
                ELSE IF x <= 12 THEN 2 * (lo % 2^x) - 2^x
                ELSE IF hi % 2^(x - 12) # 2^(x - 13)
                THEN 2 * (hi % 2^(x - 12)) - 2^(x - 12)
                ELSE lo
        m == IF over > 0 \/ (over = 0 /\ x > 0 /\ kept % 2 = 1)
             THEN kept + 1 ELSE kept
    IN IF s.k - x >= 25 THEN 0
       ELSE IF s.k - x >= 0 THEN m \div 2^(s.k - x)
       ELSE m * 2^(x - s.k)

\* the PngDrawContext displayImage sets up for a PNG whose header gives
\* w x h: the sizes as int16_t, the scale, the target size, the offsets
Placement(w, h, invert) ==
    LET Int16(v) == ((v + 32768) % 65536) - 32768
        CDiv(a, b) == IF a >= 0 THEN a \div b ELSE -((-a) \div b)
        pngW == Int16(w)
        pngH == Int16(h)
        fits == pngW > 0 /\ pngH > 0
        sx == F32Quotient(DISPLAY_WIDTH \div pngW, DISPLAY_WIDTH % pngW,
                          pngW, 0)
        sy == F32Quotient(DISPLAY_HEIGHT \div pngH, DISPLAY_HEIGHT % pngH,
                          pngH, 0)
        s == IF ~fits THEN NoPngCtx.sX
             ELSE IF sx.k > sy.k \/ (sx.k = sy.k /\ sx.m < sy.m) THEN sx
             ELSE sy
        floorW == IF fits THEN F32FloorMul(pngW, s) ELSE pngW
        floorH == IF fits THEN F32FloorMul(pngH, s) ELSE pngH
        tW == IF floorW < 1 THEN 1 ELSE floorW
        tH == IF floorH < 1 THEN 1 ELSE floorH
    IN [x0 |-> CDiv(DISPLAY_WIDTH - tW, 2),
        y0 |-> CDiv(DISPLAY_HEIGHT - tH, 2),
        tW |-> tW, tH |-> tH, sX |-> s, sY |-> s, invert |-> invert]

\* a threshold that does not look at the invert flag
BlackAsIs(lum, invert) == lum < 128

\* pngDrawToEPD: whether a pixel of luma lum is taken for black
Black(lum, invert) == IF invert THEN lum >= 128 ELSE lum < 128

\* the bytes openRAM reads: the PNG signature and the IHDR chunk
PngHeaderLen == 33

\* the PNG header of a buffer can be read: the bytes are a PNG and the header
\* (the first bytes) arrived
PngOpens(b) == b.fmt \in {"png", "pngwide"} /\ b.len >= PngHeaderLen

\* the whole PNG decodes: all of its bytes are there and pngDrawToEPD takes
\* its lines (iWidth <= 1024)
PngDecodes(b) == b.fmt = "png" /\ b.len = b.total

\* a display that takes every buffer of at least the bitmap size for a
\* bitmap
RenderRawAtLeast(c, b) ==
    IF b.len >= raw1bppSize
    THEN [c EXCEPT !.epd = @ \o <<Cmd("fillScreen", NoBuffer),
                                  Cmd("drawBitmap", b),
                                  Cmd("flush", NoBuffer)>>]
    ELSE IF ~PngOpens(b)
    THEN updateDisplay(displayText(clearDisplay(c), "PNG decode failed"))
    ELSE IF PngDecodes(b)
    THEN [c EXCEPT !.epd = @ \o <<Cmd("fillScreen", NoBuffer),
                                  Cmd("pngDraw", b),
                                  Cmd("flush", NoBuffer)>>]
    ELSE [c EXCEPT !.epd = @ \o <<Cmd("fillScreen", NoBuffer),
                                  Cmd("pngAbort", b)>>]

\* what displayImage does with a buffer that is not empty
Render(c, b) ==
    IF b.len = raw1bppSize
    THEN [c EXCEPT !.epd = @ \o <<Cmd("fillScreen", NoBuffer),
                                  Cmd("drawBitmap", b),
                                  Cmd("flush", NoBuffer)>>]
    ELSE IF ~PngOpens(b)
    THEN updateDisplay(displayText(clearDisplay(c), "PNG decode failed"))
    ELSE IF PngDecodes(b)
    THEN [c EXCEPT !.epd = @ \o <<Cmd("fillScreen", NoBuffer),
                                  Cmd("pngDraw", b),
                                  Cmd("flush", NoBuffer)>>]
    ELSE [c EXCEPT !.epd = @ \o <<Cmd("fillScreen", NoBuffer),
                                  Cmd("pngAbort", b)>>]

\* shown: the buffers displayImage was called with
displayImage(c, b) ==
    IF b = NoBuffer \/ b.len = 0 THEN [c EXCEPT !.shown = Append(@, b)]
    ELSE Render([c EXCEPT !.shown = Append(@, b)], b)

(***************************************************************************)
(* TRMNLClient: credentials and registration record                        *)
(***************************************************************************)
setState(c, state) == [c EXCEPT !.currentState = state]

\* whether an SSID is there: the build's WIFI_SSID when defined, else the
\* stored one
loadCredentials(c) ==
    IF c.secrets.WIFI_SSID THEN TRUE
    ELSE loadString(c, "wifi_ssid", "") # ""

hasWiFiCredentials(c) == loadCredentials(c)

saveCredentials(c, ssid, password) ==
    saveString(saveString(c, "wifi_ssid", ssid), "wifi_password", password)

clearWiFiCredentials(c) ==
    saveString(saveString(c, "wifi_ssid", ""), "wifi_password", "")

isDeviceRegistered(c) == c.apiKey # "" /\ c.friendlyId # ""

saveDeviceInfo(c) ==
    saveInt(saveString(saveString(c, "api_key", c.apiKey),
                       "friendly_id", c.friendlyId),
            "refresh_rate", c.refreshRate)

loadDeviceInfo(c) ==
    [c EXCEPT !.apiKey = IF c.secrets.TRMNL_API_KEY THEN "build-key"
                         ELSE loadString(c, "api_key", ""),
              !.friendlyId = IF c.secrets.CUSTOM_FRIENDLY_ID THEN "build-id"
                             ELSE loadString(c, "friendly_id", ""),
              !.refreshRate = loadInt(c, "refresh_rate",
                                      DEEP_SLEEP_DURATION_SECONDS)]

\* a reset that forgets the registration in memory only
ForgetRegistration(c) == [c EXCEPT !.apiKey = "", !.friendlyId = ""]

clearDeviceRegistration(c) ==
    saveString(saveString([c EXCEPT !.apiKey = "", !.friendlyId = ""],
                          "api_key", ""),
               "friendly_id", "")

isWiFiConnected(c) == c.wifiConnected

setRefreshRate(c, seconds) ==
    saveInt([c EXCEPT !.refreshRate = seconds], "refresh_rate", seconds)

clearErrors(c) == [c EXCEPT !.consecutiveErrors = 0]

\* a counter that goes up by two
BumpErrorsTwice(c) ==
    [c EXCEPT !.consecutiveErrors = IF @ + 2 < MaxErrors THEN @ + 2
                                    ELSE MaxErrors]

\* consecutiveErrors++, counted up to MaxErrors
BumpErrors(c) ==
    [c EXCEPT !.consecutiveErrors = IF @ < MaxErrors THEN @ + 1 ELSE @]

\* WiFi.begin and the wait for WL_CONNECTED; up: the network answers in time
connectToWiFi(c, up) ==
    IF ~loadCredentials(c) THEN [c EXCEPT !.ret = FALSE]
    ELSE [c EXCEPT !.wifiBegun = TRUE, !.wifiConnected = up, !.ret = up]

(***************************************************************************)
(* TRMNLClient: the two API calls                                          *)
(***************************************************************************)
\* the codes of the GETs the setup loop makes; codes[k] is what the k-th GET
\* would get
RECURSIVE SetupRetryLoop(_, _)
SetupRetryLoop(codes, attempt) ==
    IF attempt > maxRetries THEN <<>>
    ELSE LET httpResponseCode == codes[attempt] IN
         IF httpResponseCode = 200 THEN <<httpResponseCode>>
         ELSE IF httpResponseCode < 0
         THEN <<httpResponseCode>> \o SetupRetryLoop(codes, attempt + 1)
         ELSE IF httpResponseCode >= 500
         THEN <<httpResponseCode>> \o SetupRetryLoop(codes, attempt + 1)
         ELSE <<httpResponseCode>>

\* a parse that looks at the top level and under "device" only
ParseSetupNoData(body) ==
    LET okFlag == Or(body.success, FALSE) \/ Or(body.ok, FALSE)
        top == Or(body.api_key, Or(body.apiKey, ""))
        topF == Or(body.friendly_id, Or(body.friendlyId, ""))
    IN [status |-> Or(body.status, IF okFlag THEN 200 ELSE 0),
        apiKey |-> IF top = ""
                   THEN Or(body.device_api_key, Or(body.device_apiKey, ""))
                   ELSE top,
        friendlyId |-> IF topF = ""
                       THEN Or(body.device_friendly_id,
                               Or(body.device_friendlyId, ""))
                       ELSE topF,
        imageUrl |-> Or(body.image_url, Or(body.imageUrl, "")),
        filename |-> Or(body.filename, "")]

\* the fields of SetupResponse parsed from a JSON body
ParseSetup(body) ==
    LET okFlag == Or(body.success, FALSE) \/ Or(body.ok, FALSE)
        top == Or(body.api_key, Or(body.apiKey, ""))
        parsedApiKey ==
            IF top = ""
            THEN Or(body.device_api_key, Or(body.device_apiKey,
                    Or(body.data_api_key, Or(body.data_apiKey, ""))))
            ELSE top
        topF == Or(body.friendly_id, Or(body.friendlyId, ""))
        parsedFriendly ==
            IF topF = ""
            THEN Or(body.device_friendly_id, Or(body.device_friendlyId,
                    Or(body.data_friendly_id, Or(body.data_friendlyId, ""))))
            ELSE topF
    IN [status |-> Or(body.status, IF okFlag THEN 200 ELSE 0),
        apiKey |-> parsedApiKey,
        friendlyId |-> parsedFriendly,
        imageUrl |-> Or(body.image_url, Or(body.imageUrl, "")),
        filename |-> Or(body.filename, "")]

\* a setup call that goes by the status alone
SetupParsedByStatus(c, response) ==
    [c EXCEPT !.resp = response, !.ret = response.status = 200]

\* callSetupAPI from the parsed document on
SetupParsed(c, response) ==
    [c EXCEPT !.resp = response,
              !.ret = \/ response.status = 200
                      \/ /\ response.apiKey # ""
                         /\ response.friendlyId # ""]

\* callSetupAPI after the retry loop; gets: the codes of the GETs it made
SetupAnswered(c, gets, body) ==
    IF gets[Len(gets)] = 200 /\ body.json
    THEN SetupParsed([c EXCEPT !.http = @ \o [i \in 1..Len(gets) |->
                                              Get("callSetupAPI", SetupUrl, gets[i])]],
                     ParseSetup(body))
    ELSE [c EXCEPT !.http = @ \o [i \in 1..Len(gets) |->
                                   Get("callSetupAPI", SetupUrl, gets[i])],
                   !.ret = FALSE]

\* srv = [codes, body]: what the server answers
callSetupAPI(c, srv) ==
    IF ~isWiFiConnected(c) THEN [c EXCEPT !.ret = FALSE]
    ELSE SetupAnswered(c, SetupRetryLoop(srv.codes, 1), srv.body)

\* a retry loop that also retries what is not a server or transport failure
RECURSIVE RetryEveryFailure(_, _)
RetryEveryFailure(codes, attempt) ==
    IF attempt > maxRetries THEN <<>>
    ELSE IF codes[attempt] = 200 THEN <<codes[attempt]>>
    ELSE <<codes[attempt]>> \o RetryEveryFailure(codes, attempt + 1)

RECURSIVE DisplayRetryLoop(_, _)
DisplayRetryLoop(codes, attempt) ==
    IF attempt > maxRetries THEN <<>>
    ELSE LET httpResponseCode == codes[attempt] IN
         IF httpResponseCode = 200 THEN <<httpResponseCode>>
         ELSE IF httpResponseCode < 0 \/ httpResponseCode >= 500
         THEN <<httpResponseCode>> \o DisplayRetryLoop(codes, attempt + 1)
         ELSE <<httpResponseCode>>

\* the fields of DisplayResponse parsed from a JSON body
ParseDisplay(c, body) ==
    LET u1 == Or(body.image_url, "")
        u2 == IF u1 = "" THEN Or(body.url, "") ELSE u1
        u3 == IF u2 = "" THEN Or(body.image, "") ELSE u2
    IN [status |-> Or(body.status, 200),
        imageUrl |-> u3,
        filename |-> Or(body.filename, ""),
        updateFirmware |-> Or(body.update_firmware, FALSE),
        firmwareUrl |-> Or(body.firmware_url, ""),
        refreshRate |-> Or(body.refresh_rate, c.refreshRate),
        resetFirmware |-> Or(body.reset_firmware, FALSE),
        error |-> Or(body.error, "")]

\* the DisplayResponse of a 200 answer that is not JSON: the endpoint itself
\* is taken to be the image
DirectImageResponse(c) ==
    [status |-> 200, imageUrl |-> DisplayUrl, filename |-> "",
     updateFirmware |-> FALSE, firmwareUrl |-> "",
     refreshRate |-> c.refreshRate, resetFirmware |-> FALSE, error |-> ""]

\* the reset_firmware branch of callDisplayAPI
ResetOnSignal(c, response) ==
    IF response.resetFirmware
    THEN [clearDeviceRegistration(c) EXCEPT !.resetSeen = TRUE]
    ELSE c

\* callDisplayAPI from the parsed document on
DisplayParsed(c, response) ==
    [ResetOnSignal(IF response.refreshRate # c.refreshRate
                   THEN setRefreshRate(c, response.refreshRate)
                   ELSE c, response)
        EXCEPT !.resp = response,
               !.ret = \/ response.status = 200
                       \/ /\ response.imageUrl # ""
                          /\ response.error = ""]

\* a display call that takes nothing but JSON
DisplayBodyJsonOnly(c, httpResponseCode, body) ==
    IF httpResponseCode = 200 /\ body.json
    THEN DisplayParsed(c, ParseDisplay(c, body))
    ELSE [c EXCEPT !.ret = FALSE]

\* callDisplayAPI after the GETs are made
DisplayBody(c, httpResponseCode, body) ==
    IF httpResponseCode = 200
    THEN IF body.json
         THEN DisplayParsed(c, ParseDisplay(c, body))
         ELSE [c EXCEPT !.resp = DirectImageResponse(c), !.ret = TRUE]
    ELSE [c EXCEPT !.ret = FALSE]

\* callDisplayAPI after the retry loop; gets: the codes of the GETs it made
DisplayAnswered(c, gets, body) ==
    DisplayBody([c EXCEPT !.http = @ \o [i \in 1..Len(gets) |->
                                         Get("callDisplayAPI", DisplayUrl, gets[i])]],
                gets[Len(gets)], body)

\* a display call that does not look at the access key
callDisplayAPIKeyless(c, srv) ==
    IF ~isWiFiConnected(c) THEN [c EXCEPT !.ret = FALSE]
    ELSE DisplayAnswered(c, DisplayRetryLoop(srv.codes, 1), srv.body)

callDisplayAPI(c, srv) ==
    IF ~isWiFiConnected(c) \/ c.apiKey = "" THEN [c EXCEPT !.ret = FALSE]
    ELSE DisplayAnswered(c, DisplayRetryLoop(srv.codes, 1), srv.body)

(***************************************************************************)
(* TRMNLClient: image download with the buffer sized after the headers     *)
(***************************************************************************)
\* sizing that shrinks already when the margin is met exactly
AllocSizeEager(contentLength, freeHeap) ==
    LET allocSize == IF contentLength > 0 /\ contentLength < MAX_IMAGE_SIZE
                     THEN contentLength
                     ELSE FALLBACK_ALLOC
    IN IF allocSize + HEAP_MARGIN >= freeHeap
       THEN IF freeHeap > FALLBACK_ALLOC THEN freeHeap - HEAP_MARGIN
            ELSE freeHeap \div 2
       ELSE allocSize

\* sizing that shrinks to the heap less the margin whatever the heap is
AllocSizeLessMargin(contentLength, freeHeap) ==
    LET allocSize == IF contentLength > 0 /\ contentLength < MAX_IMAGE_SIZE
                     THEN contentLength
                     ELSE FALLBACK_ALLOC
    IN IF allocSize + HEAP_MARGIN > freeHeap
       THEN IF freeHeap > HEAP_MARGIN THEN freeHeap - HEAP_MARGIN ELSE 0
       ELSE allocSize

\* sizing that does not look at the heap
AllocSizeUnchecked(contentLength, freeHeap) ==
    IF contentLength > 0 /\ contentLength < MAX_IMAGE_SIZE
    THEN contentLength
    ELSE FALLBACK_ALLOC

\* sizing that never goes below the fallback when the length is unknown
AllocSizeFloored(contentLength, freeHeap) ==
    LET allocSize == IF contentLength > 0 /\ contentLength < MAX_IMAGE_SIZE
                     THEN contentLength
                     ELSE FALLBACK_ALLOC
        candidate == IF freeHeap > FALLBACK_ALLOC
                     THEN freeHeap - HEAP_MARGIN
                     ELSE freeHeap \div 2
    IN IF allocSize + HEAP_MARGIN > freeHeap
       THEN IF contentLength <= 0 /\ candidate < FALLBACK_ALLOC
            THEN FALLBACK_ALLOC
            ELSE candidate
       ELSE allocSize

\* the size asked of malloc
AllocSize(contentLength, freeHeap) ==
    LET allocSize == IF contentLength > 0 /\ contentLength < MAX_IMAGE_SIZE
                     THEN contentLength
                     ELSE FALLBACK_ALLOC
    IN IF allocSize + HEAP_MARGIN > freeHeap
       THEN LET candidate == IF freeHeap > FALLBACK_ALLOC
                             THEN freeHeap - HEAP_MARGIN
                             ELSE freeHeap \div 2
            IN IF /\ (contentLength <= 0 \/ contentLength > candidate)
                  /\ candidate > FALLBACK_ALLOC
               THEN FALLBACK_ALLOC
               ELSE candidate
       ELSE allocSize

\* malloc, free, and a read or write through the pointer, in the order the
\* call makes them
Heap(c, event) == [c EXCEPT !.mem = Append(@, event)]

\* the read loop: bytesRead so far, remaining bytes the server still sends
\* before it closes, chunk bytes available at a time; the result is bytesRead
\* when the loop ends
RECURSIVE ReadLoop(_, _, _, _)
ReadLoop(bytesRead, remaining, chunk, maxSize) ==
    IF remaining = 0 THEN bytesRead
    ELSE LET available == Min(chunk, remaining)
             toRead == IF bytesRead + available > maxSize
                       THEN maxSize - bytesRead
                       ELSE available
         IN IF toRead = 0 THEN bytesRead
            ELSE ReadLoop(bytesRead + toRead, remaining - toRead, chunk,
                          maxSize)

\* the Content-Length the image response declares (getSize(): -1 without one)
ContentLengthOf(img) == IF img.declared THEN img.size ELSE -1

\* what a download that did not get to the transfer leaves in dl
NoDownload == [started |-> FALSE, contentLength |-> 0, freeHeap |-> 0,
               allocSize |-> 0, bytesRead |-> 0, size |-> 0, sent |-> 0,
               ok |-> FALSE]

\* an end of the download that does not compare with the declared length
DownloadEndUnchecked(c, img, contentLength, bytesRead) ==
    IF bytesRead = 0
    THEN [c EXCEPT !.ret = FALSE, !.dl.bytesRead = bytesRead]
    ELSE [c EXCEPT !.ret = TRUE,
                   !.buf = [id |-> img.id, len |-> bytesRead,
                            total |-> img.size, fmt |-> img.fmt],
                   !.dl.bytesRead = bytesRead, !.dl.ok = TRUE]

\* an end of the download that returns on a short transfer as it is
DownloadEndKeeps(c, img, contentLength, bytesRead) ==
    IF contentLength > 0 /\ bytesRead # contentLength
                        /\ bytesRead < contentLength
    THEN [c EXCEPT !.ret = FALSE, !.dl.bytesRead = bytesRead]
    ELSE IF bytesRead = 0
    THEN [Heap(c, "free") EXCEPT !.ret = FALSE, !.dl.bytesRead = bytesRead]
    ELSE [c EXCEPT !.ret = TRUE, !.outBuffer = TRUE,
                   !.buf = [id |-> img.id, len |-> bytesRead,
                            total |-> img.size, fmt |-> img.fmt],
                   !.dl.bytesRead = bytesRead, !.dl.ok = TRUE]

\* the end of downloadImageAutoAlloc: the truncation check and the result;
\* the buffer is freed on the two failures and handed out on success
DownloadEnd(c, img, contentLength, bytesRead) ==
    IF contentLength > 0 /\ bytesRead # contentLength
                        /\ bytesRead < contentLength
    THEN [Heap(c, "free") EXCEPT !.ret = FALSE, !.dl.bytesRead = bytesRead]
    ELSE IF bytesRead = 0
    THEN [Heap(c, "free") EXCEPT !.ret = FALSE, !.dl.bytesRead = bytesRead]
    ELSE [c EXCEPT !.ret = TRUE, !.outBuffer = TRUE,
                   !.buf = [id |-> img.id, len |-> bytesRead,
                            total |-> img.size, fmt |-> img.fmt],
                   !.dl.bytesRead = bytesRead, !.dl.ok = TRUE]

\* downloadImageAutoAlloc from malloc on
DownloadInto(c, img, contentLength, allocSize) ==
    IF ~(img.mallocOk /\ allocSize <= img.freeHeap)
    THEN [c EXCEPT !.ret = FALSE, !.dl.allocSize = allocSize]
    ELSE DownloadEnd([Heap(c, "malloc") EXCEPT !.dl.allocSize = allocSize],
                     img, contentLength,
                     ReadLoop(0, img.sent, img.chunk, allocSize))

\* downloadImageAutoAlloc once the GET has answered 200
DownloadSized(c, img, contentLength) ==
    DownloadInto([c EXCEPT !.dl = [started |-> TRUE,
                                   contentLength |-> contentLength,
                                   freeHeap |-> img.freeHeap,
                                   allocSize |-> 0, bytesRead |-> 0,
                                   size |-> img.size, sent |-> img.sent,
                                   ok |-> FALSE]],
                 img, contentLength, AllocSize(contentLength, img.freeHeap))

\* img: the image server's answer and the heap at that moment
\*   code         the status of the GET
\*   size         the length of the image body
\*   declared     whether Content-Length is sent
\*   sent         the bytes that arrive before the connection closes
\*   id, fmt      which image, and what its bytes are
\*   freeHeap     ESP.getFreeHeap()
\*   mallocOk     malloc finds a block when the heap has the bytes
\*   chunk        bytes available per poll
downloadImageAutoAlloc(c, imageUrl, img) ==
    IF ~isWiFiConnected(c) \/ imageUrl = ""
    THEN [c EXCEPT !.ret = FALSE, !.buf = NoBuffer, !.dl = NoDownload]
    ELSE IF img.code # 200
    THEN [c EXCEPT !.http = Append(@, Get("downloadImageAutoAlloc", imageUrl, img.code)),
                   !.buf = NoBuffer, !.dl = NoDownload, !.ret = FALSE]
    ELSE DownloadSized([c EXCEPT !.http = Append(@, Get("downloadImageAutoAlloc", imageUrl, img.code)),
                                 !.buf = NoBuffer, !.dl = NoDownload],
                       img, ContentLengthOf(img))

(***************************************************************************)
(* TRMNLClient: cache                                                      *)
(***************************************************************************)
CachePath(filename) == "/cache/" \o filename

cacheImage(c, filename, imageData, opens) ==
    IF ~c.sdCardAvailable THEN [c EXCEPT !.ret = FALSE]
    ELSE [writeFile(c, CachePath(filename), imageData, opens)
             EXCEPT !.cached = Append(@, imageData)]

loadCachedImage(c, filename, maxSize) ==
    IF ~c.sdCardAvailable THEN [c EXCEPT !.ret = FALSE, !.buf = NoBuffer]
    ELSE readFile(c, CachePath(filename), maxSize)

isCacheValid(c, filename) ==
    c.sdCardAvailable /\ fileExists(c, CachePath(filename))

hasCachedContent(c) ==
    /\ c.sdCardAvailable
    /\ c.lastImageFilename # ""
    /\ isCacheValid(c, c.lastImageFilename)

\* displayCachedContent once loadCachedImage has returned
DisplayLoaded(c) ==
    IF c.ret
    THEN [Heap(displayImage(Heap(c, "use"), c.buf), "free")
             EXCEPT !.ret = TRUE]
    ELSE [Heap(c, "free") EXCEPT !.ret = FALSE]

\* mallocOk: malloc(MAX_IMAGE_SIZE) gives a buffer
displayCachedContent(c, mallocOk) ==
    IF ~c.sdCardAvailable \/ c.lastImageFilename = ""
    THEN [c EXCEPT !.ret = FALSE]
    ELSE IF ~mallocOk THEN [c EXCEPT !.ret = FALSE]
    ELSE DisplayLoaded(loadCachedImage(Heap(c, "malloc"),
                                       c.lastImageFilename, MAX_IMAGE_SIZE))

(***************************************************************************)
(* TRMNLClient: registration and content refresh                           *)
(***************************************************************************)
\* a registration that falls back to Offline when the setup exchange fails
RegisteredOrOffline(c) ==
    IF c.ret
    THEN [setState(saveDeviceInfo([c EXCEPT !.apiKey = c.resp.apiKey,
                                            !.friendlyId = c.resp.friendlyId]),
                   STATE_OPERATIONAL)
             EXCEPT !.consecutiveErrors = 0, !.ret = TRUE]
    ELSE [setState(BumpErrors(c), STATE_OFFLINE) EXCEPT !.ret = FALSE]

\* registerDevice once callSetupAPI has returned
Registered(c) ==
    IF c.ret
    THEN [setState(saveDeviceInfo([c EXCEPT !.apiKey = c.resp.apiKey,
                                            !.friendlyId = c.resp.friendlyId]),
                   STATE_OPERATIONAL)
             EXCEPT !.consecutiveErrors = 0, !.ret = TRUE]
    ELSE [BumpErrors(c) EXCEPT !.ret = FALSE]

\* a registration that asks the server whether or not it is registered
ConnectedAsksAnyway(c, srv) ==
    IF ~c.ret THEN [c EXCEPT !.ret = FALSE]
    ELSE Registered(callSetupAPI(c, srv))

\* registerDevice once connectToWiFi has returned
Connected(c, srv) ==
    IF ~c.ret THEN [c EXCEPT !.ret = FALSE]
    ELSE IF isDeviceRegistered(c)
    THEN [setState(c, STATE_OPERATIONAL) EXCEPT !.consecutiveErrors = 0,
                                                !.ret = TRUE]
    ELSE Registered(callSetupAPI(c, srv))

\* srv = [up, codes, body]
registerDevice(c, srv) == Connected(connectToWiFi(c, srv.up), srv)

\* an update that caches the image and keeps the last-shown filename it had
ShownKeepsName(c, opens) ==
    [(IF CACHE_ENABLED /\ c.resp.filename # ""
      THEN cacheImage(c, c.resp.filename, c.buf, opens)
      ELSE c)
        EXCEPT !.consecutiveErrors = 0,
               !.ret = TRUE]

\* updateContent once displayImage has returned: cache, filename, counter
Shown(c, opens) ==
    [Heap(IF CACHE_ENABLED /\ c.resp.filename # ""
          THEN cacheImage(Heap(c, "use"), c.resp.filename, c.buf, opens)
          ELSE c,
          "free")
        EXCEPT !.lastImageFilename = c.resp.filename,
               !.consecutiveErrors = 0,
               !.ret = TRUE]

\* an update that gives up the network when the download fails
DownloadedOrOffline(c, opens) ==
    IF c.ret THEN Shown(displayImage(c, c.buf), opens)
    ELSE [setState(BumpErrors(c), STATE_OFFLINE) EXCEPT !.ret = FALSE]

\* updateContent once downloadImageAutoAlloc has returned
Downloaded(c, opens) ==
    IF c.ret THEN Shown(displayImage(Heap(c, "use"), c.buf), opens)
    ELSE [BumpErrors(IF c.outBuffer THEN Heap(c, "free") ELSE c)
             EXCEPT !.ret = FALSE]

\* updateContent once callDisplayAPI has returned
Answered(c, srv) ==
    IF c.ret
    THEN IF c.resp.imageUrl # ""
         THEN Downloaded(downloadImageAutoAlloc(c, c.resp.imageUrl, srv.img),
                         srv.opens)
         ELSE [BumpErrors(c) EXCEPT !.ret = FALSE]
    ELSE [BumpErrors(c) EXCEPT !.ret = FALSE]

\* an update that leaves the look at the network to callDisplayAPI
updateContentUnguarded(c, srv) == Answered(callDisplayAPI(c, srv), srv)

\* srv = [codes, body, img, opens]
updateContent(c, srv) ==
    IF ~isWiFiConnected(c)
    THEN [setState(c, STATE_OFFLINE) EXCEPT !.ret = FALSE]
    ELSE Answered(callDisplayAPI(c, srv), srv)

(***************************************************************************)
(* main.cpp: the screens, sleep and factory reset                          *)
(***************************************************************************)
showErrorScreen(c, error) ==
    updateDisplay(displayText(displayText(displayText(displayText(
        clearDisplay(c), "ERROR"), error), "Press any button"),
        "to continue"))

\* a way to sleep that draws a sleep screen first
enterSleepModeWithScreen(c) ==
    [updateDisplay(displayText(clearDisplay(c), "Sleeping"))
        EXCEPT !.asleep = TRUE, !.sleepFor = Uint32(c.refreshRate)]

\* deep sleep does not return: the step ends asleep, for sleepFor seconds
enterSleepMode(c) ==
    [c EXCEPT !.asleep = TRUE, !.sleepFor = Uint32(c.refreshRate)]

handleFactoryReset(c) ==
    LET c1 == updateDisplay(displayText(displayText(clearDisplay(c),
                  "FACTORY RESET"), "Clearing all data..."))
        c2 == clearPreferences(clearDeviceRegistration(
                  clearWiFiCredentials(c1)))
        c3 == updateDisplay(displayText(displayText(c2, "Reset complete!"),
                  "Restarting..."))
    IN [c3 EXCEPT !.restart = TRUE]

\* a startup that does not ask whether the device is registered
performStartupUnasked(c) ==
    IF ~hasWiFiCredentials(c)
    THEN updateDisplay(displayText(setState(c, STATE_WIFI_SETUP),
                                   "WiFi Setup Required"))
    ELSE updateDisplay(displayText(setState(c, STATE_OPERATIONAL), "Ready"))

performStartupSequence(c) ==
    IF ~hasWiFiCredentials(c)
    THEN updateDisplay(displayText(displayText(displayText(
             setState(c, STATE_WIFI_SETUP), "WiFi Setup Required"),
             "Connect to paperdink-setup"), "to configure WiFi"))
    ELSE IF ~isDeviceRegistered(c)
    THEN updateDisplay(displayText(displayText(
             setState(c, STATE_DEVICE_SETUP), "Device Setup"),
             "Registering with TRMNL..."))
    ELSE updateDisplay(displayText(displayText(
             setState(c, STATE_OPERATIONAL), "Ready"), "paperd.ink TRMNL"))

showStartupScreen(c) ==
    updateDisplay(displayText(displayText(displayText(displayText(displayText(
        clearDisplay(c), "paperd.ink"), "TRMNL Edition"), "version"),
        "Battery"), "MAC"))

(***************************************************************************)
(* The step record and its commit                                          *)
(***************************************************************************)
NoInput == [kind |-> "none"]

NoCall == [op |-> "none", ret |-> FALSE, preState |-> STATE_UNINITIALIZED,
           preReg |-> FALSE, preKey |-> "", preWiFi |-> FALSE,
           preFile |-> "", preFiles |-> <<>>,
           postState |-> STATE_UNINITIALIZED, postWiFi |-> FALSE,
           dl |-> NoDownload, buf |-> NoBuffer, shown |-> <<>>,
           cached |-> <<>>, preErrors |-> 0, postErrors |-> 0,
           preSlept |-> "", hadCache |-> FALSE, replayed |-> <<>>,
           sleepFor |-> Uint32(0), mem |-> <<>>]

\* everything a handler can touch, as the step finds it
Ctx ==
    [currentState |-> currentState, apiKey |-> apiKey,
     friendlyId |-> friendlyId, refreshRate |-> refreshRate,
     lastImageFilename |-> lastImageFilename,
     consecutiveErrors |-> consecutiveErrors,
     configPortalActive |-> configPortalActive, prefs |-> prefs,
     sdCardAvailable |-> sdCardAvailable, sdFiles |-> sdFiles,
     wifiConnected |-> wifiConnected, wifiBegun |-> wifiBegun,
     invertDisplayFlag |-> invertDisplayFlag, forceRefresh |-> forceRefresh,
     secrets |-> secrets, resetSeen |-> resetPending, sleptOn |-> sleptOn,
     now |-> now, lastReconnectAttempt |-> lastReconnectAttempt,
     polls |-> polls,
     http |-> <<>>, epd |-> <<>>, texts |-> <<>>, shown |-> <<>>,
     cached |-> <<>>,
     ret |-> FALSE, resp |-> [status |-> 0], buf |-> NoBuffer,
     dl |-> NoDownload, asleep |-> FALSE, sleepFor |-> Uint32(0),
     restart |-> FALSE, mem |-> <<>>, outBuffer |-> FALSE]

\* the fields as the constructors leave them: what RAM holds after a reset or
\* a wake-up from deep sleep (the preferences and the SD card keep theirs)
Constructed(c) ==
    [c EXCEPT !.currentState = STATE_UNINITIALIZED,
              !.apiKey = "", !.friendlyId = "",
              !.refreshRate = DEEP_SLEEP_DURATION_SECONDS,
              !.lastImageFilename = "", !.consecutiveErrors = 0,
              !.configPortalActive = FALSE,
              !.sdCardAvailable = FALSE, !.wifiConnected = FALSE,
              !.wifiBegun = FALSE, !.invertDisplayFlag = FALSE,
              !.forceRefresh = FALSE,
              !.now = 0, !.lastReconnectAttempt = 0, !.polls = <<>>]

\* what the step says about the client call it made
Call(op, before, after) ==
    [op |-> op, ret |-> after.ret, preState |-> before.currentState,
     preReg |-> isDeviceRegistered(before), preKey |-> before.apiKey,
     preWiFi |-> before.wifiConnected,
     preFile |-> before.lastImageFilename, preFiles |-> before.sdFiles,
     postState |-> after.currentState, postWiFi |-> after.wifiConnected,
     dl |-> after.dl, buf |-> after.buf, shown |-> after.shown,
     cached |-> after.cached,
     preErrors |-> before.consecutiveErrors,
     postErrors |-> after.consecutiveErrors,
     preSlept |-> before.sleptOn, hadCache |-> hasCachedContent(after),
     replayed |-> <<>>, sleepFor |-> Uint32(0), mem |-> after.mem]

\* the file a later wake-up could replay: the one the refresh of this step
\* showed and cached when the step ends in deep sleep; none once the chip
\* restarts or another refresh is made
SleptOn(c, call) ==
    IF c.restart THEN ""
    ELSE IF c.asleep \/ call.op = "updateContent"
    THEN IF /\ c.asleep
            /\ call.op = "updateContent"
            /\ call.ret
            /\ call.cached # <<>>
            /\ hasCachedContent(c)
         THEN c.lastImageFilename
         ELSE ""
    ELSE c.sleptOn

\* the step ends: c is what the handler left, next the position it goes to
\* unless it ended in deep sleep or a restart
Commit(c, next, call, input) ==
    LET d == IF c.asleep \/ c.restart THEN Constructed(c) ELSE c IN
    /\ pc' = IF c.asleep THEN "asleep" ELSE IF c.restart THEN "boot" ELSE next
    /\ currentState' = d.currentState
    /\ apiKey' = d.apiKey
    /\ friendlyId' = d.friendlyId
    /\ refreshRate' = d.refreshRate
    /\ lastImageFilename' = d.lastImageFilename
    /\ consecutiveErrors' = d.consecutiveErrors
    /\ configPortalActive' = d.configPortalActive
    /\ prefs' = d.prefs
    /\ sdCardAvailable' = d.sdCardAvailable
    /\ sdFiles' = d.sdFiles
    /\ wifiConnected' = d.wifiConnected
    /\ wifiBegun' = d.wifiBegun
    /\ invertDisplayFlag' = d.invertDisplayFlag
    /\ forceRefresh' = d.forceRefresh
    /\ http' = c.http
    /\ epd' = c.epd
    /\ last' = [call EXCEPT !.sleepFor = c.sleepFor]
    /\ inp' = input
    /\ resetPending' = c.resetSeen
    /\ sleptOn' = SleptOn(c, call)
    /\ secrets' = secrets
    /\ now' = d.now
    /\ lastReconnectAttempt' = d.lastReconnectAttempt
    /\ polls' = d.polls
    /\ pngCtx' = pngCtx

\* a step that is one call: c is what the call left, input what the outside
\* answered
StepWith(c, next, op, input) == Commit(c, next, Call(op, Ctx, c), input)

Step(c, next, op) == StepWith(c, next, op, NoInput)

(***************************************************************************)
(* What the outside can answer                                             *)
(***************************************************************************)
\* builds: which of the secrets.h macros are defined
Builds == {[WIFI_SSID |-> FALSE, TRMNL_API_KEY |-> FALSE,
            CUSTOM_FRIENDLY_ID |-> FALSE],
           [WIFI_SSID |-> TRUE, TRMNL_API_KEY |-> FALSE,
            CUSTOM_FRIENDLY_ID |-> FALSE]}

ImgUrl == "/img"

NoJson == [json |-> FALSE]

EmptySetupBody ==
    [json |-> TRUE, status |-> Absent, success |-> Absent, ok |-> Absent,
     api_key |-> Absent, apiKey |-> Absent,
     device_api_key |-> Absent, device_apiKey |-> Absent,
     data_api_key |-> Absent, data_apiKey |-> Absent,
     friendly_id |-> Absent, friendlyId |-> Absent,
     device_friendly_id |-> Absent, device_friendlyId |-> Absent,
     data_friendly_id |-> Absent, data_friendlyId |-> Absent,
     image_url |-> Absent, imageUrl |-> Absent, filename |-> Absent]

RegisteringBody ==
    [EmptySetupBody EXCEPT !.api_key = Some("K"), !.friendly_id = Some("F")]

MainSetupBodies ==
    {NoJson, EmptySetupBody, RegisteringBody,
     [EmptySetupBody EXCEPT !.status = Some(200)]}

SetupSrv(u, s, b) == [up |-> u, codes |-> s, body |-> b]

\* the answers to registerDevice() the device is run against: no WiFi, a
\* setup endpoint that is down, one that answers after two retries, and each
\* body behind a plain 200
MainSetupSrv ==
    {SetupSrv(FALSE, <<200, 200, 200>>, NoJson)}
    \cup {SetupSrv(TRUE, <<503, 503, 503>>, NoJson)}
    \cup {SetupSrv(TRUE, <<200, 200, 200>>, b) : b \in MainSetupBodies}
    \cup {SetupSrv(TRUE, <<-1, 503, 200>>, RegisteringBody)}

EmptyDisplayBody ==
    [json |-> TRUE, status |-> Absent, image_url |-> Absent, url |-> Absent,
     image |-> Absent, filename |-> Absent, update_firmware |-> Absent,
     firmware_url |-> Absent, refresh_rate |-> Absent,
     reset_firmware |-> Absent, error |-> Absent]

ShownBody == [EmptyDisplayBody EXCEPT !.image_url = Some(ImgUrl),
                                      !.filename = Some("a.png")]
FailedBody == [EmptyDisplayBody EXCEPT !.status = Some(500),
                                       !.error = Some("e")]

ResetBody == [FailedBody EXCEPT !.reset_firmware = Some(TRUE)]
ShownResetBody == [ShownBody EXCEPT !.reset_firmware = Some(TRUE)]
OtherBody == [ShownBody EXCEPT !.filename = Some("b.png"),
                               !.refresh_rate = Some(900)]

GoodImage ==
    [code |-> 200, size |-> 1000, declared |-> TRUE, sent |-> 1000,
     id |-> "img1", fmt |-> "png", freeHeap |-> 200000, mallocOk |-> TRUE,
     chunk |-> 4096]
ShortImage == [GoodImage EXCEPT !.sent = 800]
LongImage == [GoodImage EXCEPT !.id = "img2", !.size = 70000, !.sent = 70000,
                               !.declared = FALSE]
\* longer than MAX_IMAGE_SIZE and within the download buffer
BigImage == [GoodImage EXCEPT !.id = "img3", !.size = 60000, !.sent = 60000]
\* a PNG whose lines are wider than the line buffer of pngDrawToEPD
WideImage == [GoodImage EXCEPT !.id = "img4", !.fmt = "pngwide"]
\* bytes that are no PNG
JunkImage == [GoodImage EXCEPT !.id = "img5", !.fmt = "junk"]

DisplaySrv(s, b, i, o, m) ==
    [codes |-> s, body |-> b, img |-> i, opens |-> o, cacheMalloc |-> m]

\* the answers to updateContent() the device is run against: a display
\* endpoint that is down, one that answers after two retries, bodies without
\* an image, bodies with an image that arrives whole, short, or longer than
\* the buffer, an SD card that refuses the cache file, and a cache fallback
\* that finds no memory
MainDisplaySrv ==
    {DisplaySrv(<<503, 503, 503>>, NoJson, GoodImage, TRUE, m) :
        m \in BOOLEAN}
    \cup {DisplaySrv(<<-1, 503, 200>>, ShownBody, GoodImage, TRUE, TRUE)}
    \cup {DisplaySrv(<<200, 200, 200>>, b, GoodImage, TRUE, TRUE) :
            b \in {FailedBody, ResetBody, ShownBody, ShownResetBody,
                   OtherBody}}
    \cup {DisplaySrv(<<200, 200, 200>>, ShownBody, i, TRUE, TRUE) :
            i \in {ShortImage, LongImage, BigImage}}
    \cup {DisplaySrv(<<200, 200, 200>>, ShownResetBody, ShortImage, TRUE,
                     TRUE),
          DisplaySrv(<<200, 200, 200>>, ShownBody, GoodImage, FALSE, TRUE)}

Buttons == {"b1", "b2", "b3", "b3format", "b4", "factoryReset"}
PortalEvents == {"save", "saveNoSsid", "reset", "timeout"}

(***************************************************************************)
(* main.cpp: setup() and the phases of loop()                              *)
(***************************************************************************)
LoopPhases == {"buttons", "client", "states", "states2", "update", "battery"}
WiFiReadPhases == {"states", "states2", "update"}

Init ==
    /\ pc = "boot"
    /\ currentState = STATE_UNINITIALIZED
    /\ apiKey = ""
    /\ friendlyId = ""
    /\ refreshRate = DEEP_SLEEP_DURATION_SECONDS
    /\ lastImageFilename = ""
    /\ consecutiveErrors = 0
    /\ configPortalActive = FALSE
    /\ prefs = <<>>
    /\ sdCardAvailable = FALSE
    /\ sdFiles = <<>>
    /\ wifiConnected = FALSE
    /\ wifiBegun = FALSE
    /\ invertDisplayFlag = FALSE
    /\ forceRefresh = FALSE
    /\ http = <<>>
    /\ epd = <<>>
    /\ last = NoCall
    /\ inp = NoInput
    /\ resetPending = FALSE
    /\ sleptOn = ""
    /\ secrets \in Builds
    /\ now = 0
    /\ lastReconnectAttempt = 0
    /\ polls = <<>>
    /\ pngCtx = NoPngCtx

\* setup() with the hardware coming up; sd: SD.begin finds a card; held4:
\* button 4 is down from power-on and stays down. begin() sets every button
\* state to released without reading the pins, and nothing reads them before
\* setup() asks for a very long press
Setup ==
    /\ pc = "boot"
    /\ \E sd \in BOOLEAN, held4 \in BOOLEAN :
        LET buttonStates == [i \in 0..3 |-> "BUTTON_RELEASED"]
            isButtonVeryLongPressed(i) ==
                buttonStates[i] = "BUTTON_VERY_LONG_PRESS"
            boot == [kind |-> "boot", held4 |-> held4]
            c1 == [Ctx EXCEPT !.invertDisplayFlag =
                                  IF "invert" \in DOMAIN prefs
                                  THEN prefs["invert"] ELSE FALSE,
                              !.sdCardAvailable = sd]
            c2 == showStartupScreen(c1)
            c3 == [loadDeviceInfo(c2) EXCEPT
                      !.currentState = STATE_UNINITIALIZED]
            c4 == performStartupSequence(c3)
            c5 == [c4 EXCEPT !.forceRefresh = TRUE]
        IN IF isButtonVeryLongPressed(3)
           THEN StepWith(handleFactoryReset(c2), "boot", "setupReset", boot)
           ELSE StepWith(c5, "buttons", "setup", boot)

\* setup() when hardware.begin() fails: error screen, restart
SetupHardwareFails ==
    /\ pc = "boot"
    /\ Step([showErrorScreen(Ctx, "Hardware Init Failed")
                EXCEPT !.restart = TRUE], "boot", "setupFailed")

\* handleButtons() with no button down
HandleButtonsIdle ==
    /\ pc = "buttons"
    /\ Commit(Ctx, "client", NoCall, NoInput)

\* what handleButtons() does for the button that is down
ButtonEffect(c, b) ==
    CASE b = "b1" -> [c EXCEPT !.forceRefresh = TRUE]
      [] b = "b2" -> [c EXCEPT !.invertDisplayFlag = ~c.invertDisplayFlag,
                               !.prefs = ("invert" :> ~c.invertDisplayFlag)
                                         @@ c.prefs,
                               !.forceRefresh = TRUE]
      [] b = "b3" -> updateDisplay(displayText(clearDisplay(c), "Status"))
      [] b = "b3format" ->
            updateDisplay(displayText(
                [updateDisplay(displayText(clearDisplay(c), "Status"))
                    EXCEPT !.sdFiles = IF c.sdCardAvailable THEN <<>> ELSE @],
                "SD format"))
      [] b = "b4" -> enterSleepMode(c)
      [] b = "factoryReset" -> handleFactoryReset(c)

HandleButtonsPressed ==
    /\ pc = "buttons"
    /\ \E b \in Buttons : Step(ButtonEffect(Ctx, b), "client", b)

\* TRMNLClient::loop() with nothing arriving at the portal
ClientLoopIdle ==
    /\ pc = "client"
    /\ Commit(Ctx, "states", NoCall, NoInput)

\* what the portal does for a request, or for its timeout
PortalEffect(c, ev) ==
    CASE ev = "save" ->
            [saveCredentials(c, "ssid", "pw") EXCEPT
                !.configPortalActive = FALSE, !.restart = TRUE]
      [] ev = "saveNoSsid" -> c
      [] ev = "reset" ->
            factoryReset(clearDeviceRegistration(clearWiFiCredentials(c)))
      [] ev = "timeout" -> [c EXCEPT !.configPortalActive = FALSE]

ClientLoopPortal ==
    /\ pc = "client"
    /\ configPortalActive
    /\ \E ev \in PortalEvents : Step(PortalEffect(Ctx, ev), "states", ev)

\* handleSystemStates(), STATE_WIFI_SETUP: the portal is started when no
\* credentials are stored
StatesWiFiSetup ==
    /\ pc = "states"
    /\ currentState = STATE_WIFI_SETUP
    /\ LET c1 == IF ~hasWiFiCredentials(Ctx)
                 THEN [Ctx EXCEPT !.configPortalActive = TRUE]
                 ELSE Ctx
       IN Commit(c1, "update", NoCall, NoInput)

\* the reset_firmware signal is followed up once registerDevice() runs in
\* STATE_DEVICE_SETUP
FollowedUp(c) == [c EXCEPT !.resetSeen = FALSE]

\* handleSystemStates(), STATE_DEVICE_SETUP, once registerDevice() is back
DeviceSetupEnd(c) ==
    Commit(IF ~c.ret
           THEN enterSleepMode(showErrorScreen(c,
                                               "Device Registration Failed"))
           ELSE c,
           "update", Call("registerDevice", Ctx, c), NoInput)

\* handleSystemStates(), STATE_DEVICE_SETUP
StatesDeviceSetup ==
    /\ pc = "states"
    /\ currentState = STATE_DEVICE_SETUP
    /\ \E srv \in MainSetupSrv :
        DeviceSetupEnd(registerDevice(FollowedUp(Ctx), srv))

\* handleSystemStates(), STATE_OPERATIONAL with WiFi down: registerDevice()
\* is used to reconnect
StatesReconnect ==
    /\ pc = "states"
    /\ currentState = STATE_OPERATIONAL
    /\ ~isWiFiConnected(Ctx)
    /\ \E srv \in MainSetupSrv :
        Step(registerDevice(Ctx, srv), "update", "registerDevice")

\* handleSystemStates(), STATE_OPERATIONAL with WiFi up and the minute since
\* the last check over: updateContent() ...
StatesCheck ==
    /\ pc = "states"
    /\ currentState = STATE_OPERATIONAL
    /\ isWiFiConnected(Ctx)
    /\ \E srv \in MainDisplaySrv :
        Step(updateContent(Ctx, srv), "states2", "updateContent")

\* ... and displayContent(), which is updateContent() again
StatesCheckDisplay ==
    /\ pc = "states2"
    /\ \E srv \in MainDisplaySrv :
        Step(updateContent(Ctx, srv), "update", "updateContent")

\* what handleSystemStates() does in STATE_ERROR and in STATE_OFFLINE;
\* polled: the five minutes since the last look at the network are over
PollEffect(c, polled) ==
    IF c.currentState = STATE_ERROR
    THEN IF c.consecutiveErrors > 5
         THEN enterSleepMode(clearErrors(showErrorScreen(c,
                                                         "Too Many Errors")))
         ELSE c
    ELSE IF c.currentState = STATE_OFFLINE /\ polled
    THEN IF isWiFiConnected(c) THEN setState(c, STATE_OPERATIONAL) ELSE c
    ELSE c

\* handleSystemStates() in the remaining cases: STATE_OPERATIONAL before the
\* minute is over, STATE_ERROR, STATE_OFFLINE, and the states without a case
StatesOther ==
    /\ pc = "states"
    /\ currentState # STATE_WIFI_SETUP
    /\ currentState # STATE_DEVICE_SETUP
    /\ currentState = STATE_OPERATIONAL => isWiFiConnected(Ctx)
    /\ \E polled \in BOOLEAN : Step(PollEffect(Ctx, polled), "update", "poll")

\* loop(): the content update is over; c is what updateContent() left, done
\* what the fallback or the way to sleep left; replayed: the buffers the
\* fallback gave to displayImage
ContentUpdateDone(c, done) ==
    Commit(done, "battery",
           [Call("updateContent", Ctx, c) EXCEPT
               !.replayed = IF c.ret THEN <<>> ELSE done.shown,
               !.mem = done.mem],
           NoInput)

\* loop(): the content update once updateContent() is back: sleep on
\* success, the cached image on failure
ContentUpdateEnd(c, srv) ==
    ContentUpdateDone(c, IF c.ret
                         THEN enterSleepMode([c EXCEPT !.forceRefresh = FALSE])
                         ELSE IF hasCachedContent(c)
                         THEN displayCachedContent(c, srv.cacheMalloc)
                         ELSE c)

\* loop(): the content update; forceRefresh is set by setup() and reset only
\* on the way into deep sleep, so the update is due in every pass
ContentUpdate ==
    /\ pc = "update"
    /\ \E srv \in MainDisplaySrv :
        ContentUpdateEnd(updateContent(Ctx, srv), srv)

\* loop(): the battery is not critical
BatteryOk ==
    /\ pc = "battery"
    /\ Commit(Ctx, "buttons", NoCall, NoInput)

\* loop(): the battery is critical
BatteryCritical ==
    /\ pc = "battery"
    /\ Step(enterSleepMode(showErrorScreen(Ctx, "Critical Battery")),
            "buttons", "criticalBattery")

\* the timer or a button ends deep sleep: the chip boots
Wake ==
    /\ pc = "asleep"
    /\ Commit(Ctx, "boot", NoCall, NoInput)

\* the access point goes away; the status is read by the handlers that run
\* at WiFiReadPhases, so a change is taken up there
WiFiDrops ==
    /\ pc \in WiFiReadPhases
    /\ wifiConnected
    /\ wifiConnected' = FALSE
    /\ UNCHANGED <<pc, currentState, apiKey, friendlyId, refreshRate,
                   lastImageFilename, consecutiveErrors,
                   configPortalActive, prefs, sdCardAvailable, sdFiles,
                   wifiBegun, invertDisplayFlag, forceRefresh, http, epd,
                   last, inp, resetPending, sleptOn, secrets, now,
                   lastReconnectAttempt, polls, pngCtx>>

\* the station reconnects by itself
WiFiReturns ==
    /\ pc \in WiFiReadPhases
    /\ wifiBegun
    /\ ~wifiConnected
    /\ wifiConnected' = TRUE
    /\ UNCHANGED <<pc, currentState, apiKey, friendlyId, refreshRate,
                   lastImageFilename, consecutiveErrors,
                   configPortalActive, prefs, sdCardAvailable, sdFiles,
                   wifiBegun, invertDisplayFlag, forceRefresh, http, epd,
                   last, inp, resetPending, sleptOn, secrets, now,
                   lastReconnectAttempt, polls, pngCtx>>

Next ==
    \/ Setup
    \/ SetupHardwareFails
    \/ HandleButtonsIdle
    \/ HandleButtonsPressed
    \/ ClientLoopIdle
    \/ ClientLoopPortal
    \/ StatesWiFiSetup
    \/ StatesDeviceSetup
    \/ StatesReconnect
    \/ StatesCheck
    \/ StatesCheckDisplay
    \/ StatesOther
    \/ ContentUpdate
    \/ BatteryOk
    \/ BatteryCritical
    \/ Wake
    \/ WiFiDrops
    \/ WiFiReturns

Spec == Init /\ [][Next]_vars

TypeOK ==
    /\ pc \in LoopPhases \cup {"boot", "asleep", "entry", "returned",
                             "replayed", "decoding", "drawn", "rowDrawn"}
    /\ currentState \in DeviceState
    /\ consecutiveErrors \in 0..MaxErrors

(***************************************************************************)
(* The device left alone: no button, no portal request, the battery and    *)
(* the hardware fine, the WiFi status changed only by connectToWiFi.       *)
(***************************************************************************)
QuietNext ==
    \/ Setup
    \/ HandleButtonsIdle
    \/ ClientLoopIdle
    \/ StatesWiFiSetup
    \/ StatesDeviceSetup
    \/ StatesReconnect
    \/ StatesCheck
    \/ StatesCheckDisplay
    \/ StatesOther
    \/ ContentUpdate
    \/ BatteryOk
    \/ Wake

\* every handler returns and loop() is called again, so the position of the
\* main program keeps changing; the RTC timer ends every deep sleep
FairSpec ==
    /\ Init
    /\ [][QuietNext]_vars
    /\ []<><<pc' # pc>>_vars
    /\ WF_vars(Wake)

(***************************************************************************)
(* One client call, from a state the main program makes it in, against     *)
(* every answer of the server                                              *)
(***************************************************************************)
StoredRegistration(k, f, rate) ==
    ("api_key" :> k) @@ ("friendly_id" :> f) @@ ("refresh_rate" :> rate)

\* after setup() on a device that was never registered
FreshEntry ==
    [currentState |-> STATE_DEVICE_SETUP, apiKey |-> "", friendlyId |-> "",
     refreshRate |-> DEEP_SLEEP_DURATION_SECONDS, wifiConnected |-> FALSE,
     wifiBegun |-> FALSE, prefs |-> <<>>, lastImageFilename |-> "",
     sdFiles |-> <<>>]

\* registered and connected
RunningEntry ==
    [currentState |-> STATE_OPERATIONAL, apiKey |-> "K", friendlyId |-> "F",
     refreshRate |-> DEEP_SLEEP_DURATION_SECONDS, wifiConnected |-> TRUE,
     wifiBegun |-> TRUE,
     prefs |-> StoredRegistration("K", "F", DEEP_SLEEP_DURATION_SECONDS),
     lastImageFilename |-> "", sdFiles |-> <<>>]

\* registered, the access point gone
DroppedEntry == [RunningEntry EXCEPT !.wifiConnected = FALSE]

\* connected, the registration cleared by a reset_firmware answer
ResetEntry ==
    [RunningEntry EXCEPT
        !.apiKey = "", !.friendlyId = "",
        !.prefs = StoredRegistration("", "", DEEP_SLEEP_DURATION_SECONDS)]

\* registered and connected, b.png shown and cached earlier in this pass of
\* loop()
ReplayEntry ==
    [RunningEntry EXCEPT
        !.refreshRate = 900,
        !.prefs = StoredRegistration("K", "F", 900),
        !.lastImageFilename = "b.png",
        !.sdFiles = (CachePath("b.png") :>
                        [id |-> "img1", len |-> 1000, total |-> 1000,
                         fmt |-> "png"])]

AtEntry(e) ==
    /\ pc = "entry"
    /\ currentState = e.currentState
    /\ apiKey = e.apiKey
    /\ friendlyId = e.friendlyId
    /\ refreshRate = e.refreshRate
    /\ lastImageFilename = e.lastImageFilename
    /\ consecutiveErrors = 0
    /\ configPortalActive = FALSE
    /\ prefs = e.prefs
    /\ sdCardAvailable = TRUE
    /\ sdFiles = e.sdFiles
    /\ wifiConnected = e.wifiConnected
    /\ wifiBegun = e.wifiBegun
    /\ invertDisplayFlag = loadBool(e, "invert", FALSE)
    /\ forceRefresh = TRUE
    /\ http = <<>>
    /\ epd = <<>>
    /\ last = NoCall
    /\ inp = NoInput
    /\ resetPending = FALSE
    /\ sleptOn = ""
    /\ secrets = [WIFI_SSID |-> TRUE, TRMNL_API_KEY |-> FALSE,
                  CUSTOM_FRIENDLY_ID |-> FALSE]
    /\ now = 0
    /\ lastReconnectAttempt = 0
    /\ polls = <<>>
    /\ pngCtx = NoPngCtx

\* a status per GET: transport failure, success, 4xx, and both sides of 500
ApiCodes == {-1, 200, 404, 499, 500, 503}
ApiScripts == [1..maxRetries -> ApiCodes]

\* a JSON member that is left out (0), the empty string (1) or a value (2)
Held(how, value) ==
    IF how = 0 THEN Absent ELSE IF how = 1 THEN Some("") ELSE Some(value)

\* setup answers with status 200 in which each of the six places of the
\* api key, or each of the six places of the friendly id, is left out,
\* holds the empty string, or holds a value of its own
FallbackBodies ==
    {[EmptySetupBody EXCEPT
         !.status = Some(200),
         !.api_key = Held(f[1], "k1"), !.apiKey = Held(f[2], "k2"),
         !.device_api_key = Held(f[3], "k3"),
         !.device_apiKey = Held(f[4], "k4"),
         !.data_api_key = Held(f[5], "k5"),
         !.data_apiKey = Held(f[6], "k6")] : f \in [1..6 -> 0..2]}
    \cup
    {[EmptySetupBody EXCEPT
         !.status = Some(200), !.api_key = Some("K"),
         !.friendly_id = Held(f[1], "f1"), !.friendlyId = Held(f[2], "f2"),
         !.device_friendly_id = Held(f[3], "f3"),
         !.device_friendlyId = Held(f[4], "f4"),
         !.data_friendly_id = Held(f[5], "f5"),
         !.data_friendlyId = Held(f[6], "f6")] : f \in [1..6 -> 0..2]}

\* setup answers with every combination of the members the success of
\* callSetupAPI depends on
StatusBodies ==
    {[EmptySetupBody EXCEPT !.status = f.status, !.success = f.success,
                            !.ok = f.ok, !.api_key = f.key,
                            !.data_friendlyId = f.friendly] :
        f \in [status : {Absent, Some(200), Some(0), Some(500)},
               success : {Absent, Some(TRUE), Some(FALSE)},
               ok : {Absent, Some(TRUE), Some(FALSE)},
               key : {Absent, Some(""), Some("K")},
               friendly : {Absent, Some(""), Some("F")}]}

ApiSetupSrv ==
    {SetupSrv(u, s, b) : u \in BOOLEAN, s \in ApiScripts,
                         b \in {NoJson, RegisteringBody}}
    \cup {SetupSrv(TRUE, <<200, 200, 200>>, b) :
            b \in MainSetupBodies \cup FallbackBodies \cup StatusBodies}

\* every combination of the fields callDisplayAPI reads
ApiDisplayBodies ==
    {[EmptyDisplayBody EXCEPT !.status = f.status, !.image_url = f.image_url,
                              !.filename = f.filename, !.error = f.error,
                              !.refresh_rate = f.refresh_rate,
                              !.reset_firmware = f.reset_firmware] :
        f \in [status : {Absent, Some(200), Some(500)},
               image_url : {Absent, Some(""), Some(ImgUrl)},
               filename : {Absent, Some("a.png")},
               error : {Absent, Some("e")},
               refresh_rate : {Absent, Some(900), Some(0), Some(-1)},
               reset_firmware : {Absent, Some(FALSE), Some(TRUE)}]}

ApiDisplaySrv ==
    {DisplaySrv(s, b, GoodImage, TRUE, TRUE) :
        s \in ApiScripts, b \in {NoJson, ShownBody, ResetBody}}
    \cup {DisplaySrv(<<200, 200, 200>>, b, GoodImage, FALSE, TRUE) :
            b \in {NoJson, ShownBody}}
    \cup {DisplaySrv(s, b, GoodImage, TRUE, TRUE) :
            s \in {<<200, 200, 200>>, <<503, -1, 200>>},
            b \in ApiDisplayBodies}

InitApi ==
    \E e \in {FreshEntry, RunningEntry, DroppedEntry, ResetEntry,
              ReplayEntry} : AtEntry(e)

\* registerDevice() as handleSystemStates() calls it
ApiRegister ==
    /\ pc = "entry"
    /\ \/ currentState = STATE_DEVICE_SETUP
       \/ currentState = STATE_OPERATIONAL /\ ~isWiFiConnected(Ctx)
    /\ \E srv \in ApiSetupSrv :
        StepWith(registerDevice(Ctx, srv), "returned", "registerDevice", srv)

\* updateContent() as loop() calls it
ApiUpdate ==
    /\ pc = "entry"
    /\ currentState = STATE_OPERATIONAL
    /\ \E srv \in ApiDisplaySrv :
        StepWith(updateContent(Ctx, srv), "returned", "updateContent", srv)

\* the content update of loop(): updateContent(), then deep sleep or the
\* cached image
ApiRefresh ==
    /\ pc = "entry"
    /\ currentState = STATE_OPERATIONAL
    /\ \E srv \in ApiDisplaySrv :
        ContentUpdateEnd(updateContent(Ctx, srv), srv)

NextApi == ApiRegister \/ ApiUpdate \/ ApiRefresh

SpecApi == InitApi /\ [][NextApi]_vars

(***************************************************************************)
(* One content refresh whose display answer names an image, against image  *)
(* answers and heap sizes at and around every boundary the download        *)
(* compares against                                                        *)
(***************************************************************************)
Near(x) == {v \in (x - Delta)..(x + Delta) : v >= 0}

ImageSizes ==
    Near(1) \cup {1000, 40000} \cup Near(raw1bppSize)
    \cup Near(MAX_IMAGE_SIZE)
    \cup Near(FALLBACK_ALLOC) \cup {70000}

Heaps(size) ==
    {h \in Near(size + HEAP_MARGIN) \cup Near(HEAP_MARGIN)
           \cup Near(FALLBACK_ALLOC) \cup Near(FALLBACK_ALLOC + HEAP_MARGIN)
           \cup {20000, 50000, 80000, 200000} : h > 0}

Sent(size) == {n \in {0, size - 1, size} : n >= 0}

\* bytes available at a poll: a part of the body, or more than any buffer
Chunks == {4096, 100000}

ImagesOf(size, declared) ==
    {[code |-> 200, size |-> size, declared |-> declared, sent |-> n,
      id |-> "img", fmt |-> "png", freeHeap |-> h, mallocOk |-> TRUE,
      chunk |-> k] : n \in Sent(size), h \in Heaps(size), k \in Chunks}

ImageAnswers ==
    UNION {ImagesOf(size, declared) :
              size \in ImageSizes, declared \in BOOLEAN}
    \cup {GoodImage, ShortImage, LongImage, BigImage, WideImage, JunkImage,
          [GoodImage EXCEPT !.code = 404],
          [GoodImage EXCEPT !.mallocOk = FALSE]}

InitImage == \E e \in {RunningEntry, ReplayEntry} : AtEntry(e)

\* updateContent() as loop() calls it, the display endpoint naming a.png
ImageUpdate ==
    /\ pc = "entry"
    /\ \E img \in ImageAnswers :
        StepWith(updateContent(Ctx, DisplaySrv(<<200, 200, 200>>, ShownBody,
                                               img, TRUE, TRUE)),
                 "returned", "updateContent", img)

\* the same, the display endpoint answering with the image itself
ImageUpdateDirect ==
    /\ pc = "entry"
    /\ \E img \in ImageAnswers :
        StepWith(updateContent(Ctx, DisplaySrv(<<200, 200, 200>>, NoJson,
                                               img, TRUE, TRUE)),
                 "returned", "updateContentDirect", img)

\* the fallback is over: the record of the update, with what the fallback
\* gave to displayImage
ReplayDone(c) ==
    Commit(c, "replayed",
           [last EXCEPT !.op = "displayCachedContent", !.replayed = c.shown,
                        !.mem = c.mem],
           inp)

\* displayCachedContent() on what a successful update left on the card and
\* in lastImageFilename, as the fallback of loop() finds it when a later
\* refresh of the same boot fails
ImageReplay ==
    /\ pc = "returned"
    /\ last.op = "updateContent"
    /\ last.ret
    /\ last.cached # <<>>
    /\ ReplayDone(displayCachedContent(Ctx, TRUE))

NextImage == ImageUpdate \/ ImageUpdateDirect \/ ImageReplay

SpecImage == InitImage /\ [][NextImage]_vars

(***************************************************************************)
(* A registered device that went Offline, with the clock: the passes of    *)
(* loop() until the state is promoted, the device sleeps or restarts       *)
(***************************************************************************)
ReconnectInterval == 300000

\* the time the model lets pass
MaxNow == 1000000

\* what can pass between two passes of loop(), in ms: less than the
\* interval, and the interval to the millisecond
Ticks == {150000, ReconnectInterval - 1, ReconnectInterval,
          ReconnectInterval + 1}

\* a reconnect timer of one minute, as the content check has
ReconnectDueEveryMinute(t, lastAttempt) == t - lastAttempt > 60000

\* millis() - lastReconnectAttempt > 300000 (unsigned long; the times of
\* the model stay far below its width)
ReconnectDue(t, lastAttempt) == t - lastAttempt > ReconnectInterval

\* updateContent() found the WiFi down and left STATE_OFFLINE
InitPoll ==
    AtEntry([DroppedEntry EXCEPT !.currentState = STATE_OFFLINE])

\* time passes before the next pass of loop()
Tick ==
    /\ pc \in {"entry", "buttons"}
    /\ \E t \in Ticks :
        /\ now + t <= MaxNow
        /\ now' = now + t
    /\ pc' = "buttons"
    /\ UNCHANGED <<currentState, apiKey, friendlyId, refreshRate,
                   lastImageFilename, consecutiveErrors,
                   configPortalActive, prefs, sdCardAvailable, sdFiles,
                   wifiConnected, wifiBegun, invertDisplayFlag, forceRefresh,
                   http, epd, last, inp, resetPending, sleptOn, secrets,
                   lastReconnectAttempt, polls, pngCtx>>

\* handleSystemStates(), STATE_OFFLINE, with the timer read from the clock;
\* late: the ms between the millis() of the condition and the millis()
\* stored in lastReconnectAttempt
StatesOffline ==
    /\ pc = "states"
    /\ currentState = STATE_OFFLINE
    /\ \E late \in {0, 1} :
        IF ReconnectDue(now, lastReconnectAttempt)
        THEN Step([PollEffect(Ctx, TRUE) EXCEPT
                      !.now = now + late,
                      !.lastReconnectAttempt = now + late,
                      !.polls = Append(polls, now)],
                  "update", "poll")
        ELSE Step(PollEffect(Ctx, FALSE), "update", "poll")

NextPoll ==
    \/ Tick
    \/ HandleButtonsIdle
    \/ HandleButtonsPressed
    \/ ClientLoopIdle
    \/ StatesOffline
    \/ ContentUpdate
    \/ BatteryOk
    \/ BatteryCritical
    \/ WiFiDrops
    \/ WiFiReturns

SpecPoll == InitPoll /\ [][NextPoll]_vars

(***************************************************************************)
(* displayImage on a PNG that opens, up to a pixel of a decoded line: the   *)
(* placement for the size in the header, and the black/white decision      *)
(***************************************************************************)
\* widths and heights a PNG header can give
PngDims == {1, 2, 3, 100, 200, 291, 300, 301, 388, 400, 800, 1024, 32767,
            40000}

\* RGB565 pixels: greys, greens and reds of every level, and two at the
\* threshold
Pixels ==
    {r5 * 2048 + g6 * 32 : r5 \in {0, 16, 31}, g6 \in 0..63} \cup {1374, 1375}

\* a running device with the invert flag as setup() loaded it
InitRender ==
    \E inv \in BOOLEAN :
        AtEntry([RunningEntry EXCEPT !.prefs = ("invert" :> inv) @@ @])

\* displayImage from openRAM to the page loop
DisplayImageHeader ==
    /\ pc = "entry"
    /\ \E w \in PngDims, h \in PngDims :
        /\ pngCtx' = Placement(w, h, invertDisplayFlag)
        /\ inp' = [kind |-> "png", w |-> w, h |-> h]
    /\ pc' = "decoding"
    /\ UNCHANGED <<currentState, apiKey, friendlyId, refreshRate,
                   lastImageFilename, consecutiveErrors,
                   configPortalActive, prefs, sdCardAvailable, sdFiles,
                   wifiConnected, wifiBegun, invertDisplayFlag, forceRefresh,
                   http, epd, last, resetPending, sleptOn, secrets, now,
                   lastReconnectAttempt, polls>>

\* pngDrawToEPD for the first pixel of a line: its luma, the decision, and
\* the bit of lineBits (cleared for black inside the frame)
PngDrawPixel ==
    /\ pc = "decoding"
    /\ \E c \in Pixels :
        LET r == (((c \div 2048) % 32) * 255 + 15) \div 31
            g == (((c \div 32) % 64) * 255 + 31) \div 63
            b == ((c % 32) * 255 + 15) \div 31
            lum == ((r * 30 + g * 59 + b * 11) \div 100) % 256
            dstX == pngCtx.x0
        IN /\ inp' = [kind |-> "pixel", c |-> c, lum |-> lum,
                      black |-> Black(lum, pngCtx.invert),
                      bit |-> IF /\ dstX >= 0
                                 /\ dstX < DISPLAY_WIDTH
                                 /\ Black(lum, pngCtx.invert)
                              THEN 0 ELSE 1]
    /\ pc' = "drawn"
    /\ UNCHANGED <<currentState, apiKey, friendlyId, refreshRate,
                   lastImageFilename, consecutiveErrors,
                   configPortalActive, prefs, sdCardAvailable, sdFiles,
                   wifiConnected, wifiBegun, invertDisplayFlag, forceRefresh,
                   http, epd, last, resetPending, sleptOn, secrets, now,
                   lastReconnectAttempt, polls, pngCtx>>

\* source rows the decoder can hand to the callback
PngRows == {0, 1, 2, 3, 50, 99, 150, 290, 299, 300, 900}

\* pngDrawToEPD for source row y, after lineBits is built: the destination
\* rows drawBitmap is called for
PngDrawRow ==
    /\ pc = "decoding"
    /\ \E y \in PngRows :
        /\ y < inp.h
        /\ LET yStart == pngCtx.y0 + (IF y = 0 THEN 0
                                      ELSE F32FloorMul(y, pngCtx.sY))
               yLast == pngCtx.y0 + F32FloorMul(y + 1, pngCtx.sY) - 1
               yEnd == IF yLast < yStart THEN yStart ELSE yLast
           IN inp' = [kind |-> "row", y |-> y,
                      rows |-> {dy \in yStart..yEnd :
                                   dy >= 0 /\ dy < DISPLAY_HEIGHT}]
    /\ pc' = "rowDrawn"
    /\ UNCHANGED <<currentState, apiKey, friendlyId, refreshRate,
                   lastImageFilename, consecutiveErrors,
                   configPortalActive, prefs, sdCardAvailable, sdFiles,
                   wifiConnected, wifiBegun, invertDisplayFlag, forceRefresh,
                   http, epd, last, resetPending, sleptOn, secrets, now,
                   lastReconnectAttempt, polls, pngCtx>>

NextRender == DisplayImageHeader \/ PngDrawPixel \/ PngDrawRow

SpecRender == InitRender /\ [][NextRender]_vars

(***************************************************************************)
(* What the properties read                                                *)
(***************************************************************************)
\* the GETs of the last step, by the method that sent them
SetupGets == SelectSeq(http, LAMBDA g : g.from = "callSetupAPI")
DisplayGets == SelectSeq(http, LAMBDA g : g.from = "callDisplayAPI")

\* the API call the last step's client call goes through, and its GETs
ApiGets == IF last.op = "registerDevice" THEN SetupGets ELSE DisplayGets

\* the last step got as far as calling callSetupAPI / callDisplayAPI
ApiCalled ==
    IF last.op = "registerDevice" THEN inp.up /\ ~last.preReg
    ELSE last.preWiFi

\* that call got past the check it starts with
ApiEntered ==
    IF last.op = "registerDevice" THEN inp.up /\ ~last.preReg
    ELSE last.preWiFi /\ last.preKey # ""

\* the rule of the retry loop, on the statuses the server had ready: the
\* k-th GET got the k-th status, and GET k+1 was made exactly when GET k was
\* made and ended below 0 or at 500 or above
RetryRule ==
    LET n == Len(ApiGets) IN
    /\ n \in 1..maxRetries
    /\ \A k \in 1..n : ApiGets[k].code = inp.codes[k]
    /\ \A k \in 1..(maxRetries - 1) :
          (n >= k + 1) <=> (n >= k /\ (inp.codes[k] < 0 \/ inp.codes[k] >= 500))
    /\ inp.codes = <<503, 503, 503>> => n = maxRetries /\ ~last.ret
    /\ inp.codes[n] \in 400..499 => ~last.ret

\* what loadDeviceInfo would read back from the preference store
PersistedApiKey == loadString(Ctx, "api_key", "")
PersistedFriendlyId == loadString(Ctx, "friendly_id", "")

\* the display call of the last step got a 200 with a JSON body in which
\* reset_firmware is true
ResetSignalled ==
    /\ pc = "returned"
    /\ last.op = "updateContent"
    /\ DisplayGets # <<>>
    /\ DisplayGets[Len(DisplayGets)].code = 200
    /\ inp.body.json
    /\ inp.body.reset_firmware = Some(TRUE)

\* the image download of the last step got its 200: the length the answer
\* declares (none: -1), the free heap, and the size asked of malloc
Sized == pc = "returned" /\ last.dl.started
DeclaredLength == IF inp.declared THEN inp.size ELSE -1
FreeHeap == inp.freeHeap
Allocated == last.dl.allocSize

\* a declared length below the maximum
KnownSmall == Sized /\ DeclaredLength > 0 /\ DeclaredLength < MAX_IMAGE_SIZE

\* each entry state of the single-call specifications is a state of Spec:
\* ~Reached(e) is not an invariant of Spec for any of the five
Reached(e) ==
    /\ pc \in WiFiReadPhases
    /\ currentState = e.currentState
    /\ apiKey = e.apiKey
    /\ friendlyId = e.friendlyId
    /\ refreshRate = e.refreshRate
    /\ lastImageFilename = e.lastImageFilename
    /\ consecutiveErrors = 0
    /\ prefs = e.prefs
    /\ sdCardAvailable
    /\ sdFiles = e.sdFiles
    /\ wifiConnected = e.wifiConnected
    /\ wifiBegun = e.wifiBegun
    /\ secrets.WIFI_SSID

(***************************************************************************)
(* Properties                                                              *)
(***************************************************************************)
\* C1 as claimed: a registerDevice() call on a registered device sends no
\* request, returns true and leaves the state Operational, whatever the
\* WiFi status was
C1_Claimed ==
    (last.op = "registerDevice" /\ last.preReg)
        => /\ http = <<>>
           /\ last.ret
           /\ last.postState = STATE_OPERATIONAL

\* C1: a registerDevice() call on a registered device sends no request; it
\* returns true exactly when the WiFi connection comes up, and then the
\* state is Operational and the error counter 0; when the connection does
\* not come up it returns false and the state is what it was
C1_RegisteredNoRequest ==
    (last.op = "registerDevice" /\ last.preReg)
        => /\ http = <<>>
           /\ last.ret <=> last.postWiFi
           /\ last.ret => last.postState = STATE_OPERATIONAL
           /\ last.ret /\ pc # "asleep" => consecutiveErrors = 0
           /\ ~last.ret => last.postState = last.preState

\* a registered device whose WiFi was down called registerDevice(), which
\* reconnected and returned true
C1_Witness ==
    /\ last.op = "registerDevice"
    /\ last.preReg
    /\ ~last.preWiFi
    /\ last.ret
    /\ last.postState = STATE_OPERATIONAL
    /\ http = <<>>

\* C2 as claimed: every call of callSetupAPI and of callDisplayAPI makes
\* between 1 and 3 GETs, by the retry rule
C2_Claimed == (pc = "returned" /\ ApiCalled) => RetryRule

\* C2: a call of callSetupAPI or callDisplayAPI that gets past its entry
\* check (WiFi connected and, for callDisplayAPI, a non-empty apiKey) makes
\* between 1 and 3 GETs: GET k+1 is made exactly when GET k ended in a
\* negative code or a status >= 500, three 503 make 3 GETs and a failed
\* call, a 4xx ends the call failed; a call stopped by the entry check makes
\* no GET and fails
C2_RetryBounds ==
    (pc = "returned" /\ ApiCalled)
        => IF ApiEntered THEN RetryRule
           ELSE ApiGets = <<>> /\ ~last.ret

\* the display endpoint answered 503 three times: three GETs, failed call
C2_Witness ==
    /\ pc = "returned"
    /\ last.op = "updateContent"
    /\ ApiEntered
    /\ inp.codes = <<503, 503, 503>>
    /\ Len(DisplayGets) = 3
    /\ ~last.ret

\* C3: when callDisplayAPI got a 200 JSON answer with reset_firmware true,
\* apiKey and friendlyId are empty in memory and in the preference store
\* when the call is back, whatever the other fields of the answer are
C3_ResetClears ==
    ResetSignalled
        => /\ apiKey = ""
           /\ friendlyId = ""
           /\ PersistedApiKey = ""
           /\ PersistedFriendlyId = ""

\* a registered device got reset_firmware true in an answer that also
\* carries an error status and an image URL, and lost its registration
C3_Witness ==
    /\ ResetSignalled
    /\ last.preKey = "K"
    /\ inp.body.status = Some(500)
    /\ inp.body.image_url = Some(ImgUrl)
    /\ apiKey = ""
    /\ PersistedApiKey = ""

\* C4 as claimed: after a display answer with reset_firmware true the device
\* eventually calls registerDevice() in STATE_DEVICE_SETUP, whether the
\* refresh that carried the answer succeeded or failed
C4_Claimed ==
    resetPending ~> (/\ last.op = "registerDevice"
                     /\ last.preState = STATE_DEVICE_SETUP)

\* C5: when the image answer declares a length L > 0 and fewer than L bytes
\* get into the buffer (the connection closed early, or the buffer is
\* smaller than L), the download fails and hands out no buffer, and
\* updateContent() calls displayImage for nothing, writes no cache file and
\* leaves the last-shown filename as it was
C5_TruncatedFails ==
    (Sized /\ DeclaredLength > 0
           /\ (inp.sent < DeclaredLength \/ Allocated < DeclaredLength))
        => /\ ~last.ret
           /\ last.buf = NoBuffer
           /\ last.shown = <<>>
           /\ epd = <<>>
           /\ last.cached = <<>>
           /\ sdFiles = last.preFiles
           /\ lastImageFilename = last.preFile

\* 999 of 1000 declared bytes arrived while b.png was the last-shown file:
\* nothing shown, nothing cached, b.png still the last-shown file
C5_Witness ==
    /\ Sized
    /\ DeclaredLength = 1000
    /\ inp.sent = 999
    /\ last.dl.bytesRead = 999
    /\ ~last.ret
    /\ last.preFile = "b.png"
    /\ lastImageFilename = "b.png"

\* C6 as claimed: every buffer updateContent() passes to displayImage and to
\* cacheImage is the complete body of the image answer (here: of an answer
\* whose body the server sent completely)
C6_Claimed ==
    (pc = "returned" /\ inp.sent = inp.size)
        => /\ \A i \in DOMAIN last.shown :
                 last.shown[i].len = last.shown[i].total
           /\ \A i \in DOMAIN last.cached :
                 last.cached[i].len = last.cached[i].total

\* C7: a declared length L with 0 < L < MAX_IMAGE_SIZE and a free heap of at
\* least L + 32768 give a buffer of exactly L bytes
C7_ExactFit ==
    (KnownSmall /\ FreeHeap >= DeclaredLength + HEAP_MARGIN)
        => Allocated = DeclaredLength

\* 40000 bytes declared with exactly 40000 + 32768 bytes free
C7_Witness ==
    /\ KnownSmall
    /\ DeclaredLength = 40000
    /\ FreeHeap = 40000 + HEAP_MARGIN
    /\ Allocated = 40000

\* C8 as claimed: a declared length L with 0 < L < MAX_IMAGE_SIZE and a free
\* heap F with 32768 <= F < L + 32768 give a buffer of F - 32768 bytes
C8_Claimed ==
    (KnownSmall /\ FreeHeap >= HEAP_MARGIN
                /\ FreeHeap < DeclaredLength + HEAP_MARGIN)
        => Allocated = FreeHeap - HEAP_MARGIN

\* C8: a declared length L with 0 < L < MAX_IMAGE_SIZE and a free heap F
\* with 32768 <= F < L + 32768 give a buffer of F - 32768 bytes when
\* F >= 65536, and of F div 2 bytes when F < 65536
C8_Shrunk ==
    (KnownSmall /\ FreeHeap >= HEAP_MARGIN
                /\ FreeHeap < DeclaredLength + HEAP_MARGIN)
        => Allocated = IF FreeHeap >= FALLBACK_ALLOC
                       THEN FreeHeap - HEAP_MARGIN
                       ELSE FreeHeap \div 2

\* 40000 bytes declared with 65537 bytes free: 32769 bytes asked for
C8_Witness ==
    /\ KnownSmall
    /\ DeclaredLength = 40000
    /\ FreeHeap = FALLBACK_ALLOC + 1
    /\ Allocated = FALLBACK_ALLOC + 1 - HEAP_MARGIN

\* C9: the size asked of malloc is never more than the free heap, whatever
\* the declared length is
C9_WithinHeap == Sized => Allocated <= FreeHeap

\* no length declared and 50000 bytes free: 25000 bytes asked for
C9_Witness ==
    /\ Sized
    /\ DeclaredLength = -1
    /\ FreeHeap = 50000
    /\ Allocated = 25000

\* C10 as claimed: without a declared length the buffer is 65536 bytes, and
\* when the free heap is below 65536 + 32768 the shrunk size is not below
\* 65536
C10_Claimed ==
    (Sized /\ DeclaredLength <= 0)
        => /\ FreeHeap >= FALLBACK_ALLOC + HEAP_MARGIN
                => Allocated = FALLBACK_ALLOC
           /\ Allocated >= FALLBACK_ALLOC

\* C10: without a declared length the buffer is 65536 bytes when the free
\* heap is at least 65536 + 32768; below that it is F - 32768 bytes for
\* F > 65536 and F div 2 bytes otherwise, which is less than 65536: the
\* fallback size is a cap of the shrunk size, not a floor
C10_Fallback ==
    (Sized /\ DeclaredLength <= 0)
        => /\ Allocated = IF FreeHeap >= FALLBACK_ALLOC + HEAP_MARGIN
                          THEN FALLBACK_ALLOC
                          ELSE IF FreeHeap > FALLBACK_ALLOC
                          THEN FreeHeap - HEAP_MARGIN
                          ELSE FreeHeap \div 2
           /\ Allocated <= FALLBACK_ALLOC
           /\ FreeHeap < FALLBACK_ALLOC + HEAP_MARGIN
                => Allocated < FALLBACK_ALLOC

\* no length declared and 80000 bytes free: 47232 bytes asked for
C10_Witness ==
    /\ Sized
    /\ DeclaredLength = -1
    /\ FreeHeap = 80000
    /\ Allocated = 80000 - HEAP_MARGIN

(***************************************************************************)
(* What the properties on the cache and on the failure paths read          *)
(***************************************************************************)
\* the content update of loop() was the last step and updateContent() failed
LoopRefreshFailed ==
    /\ pc = "battery"
    /\ last.op = "updateContent"
    /\ ~last.ret

\* the cache file of the last-shown filename
CachedFile == sdFiles[CachePath(lastImageFilename)]

\* C11 as claimed: when the content refresh of loop() fails while the SD
\* card is available and the file of the last-shown filename is in the
\* cache, the cached bytes are passed to displayImage and the panel gets
\* nothing but what displayImage issues for them (here: whenever the
\* fallback found the memory for its buffer)
C11_Claimed ==
    (/\ LoopRefreshFailed
     /\ sdCardAvailable
     /\ lastImageFilename # ""
     /\ CachePath(lastImageFilename) \in DOMAIN sdFiles
     /\ last.replayed # <<>>)
        => /\ last.replayed = <<CachedFile>>
           /\ epd = displayImage(Ctx, CachedFile).epd

\* updateContent() was the last call and returned true
UpdateSucceeded ==
    /\ pc = "returned"
    /\ last.op = "updateContent"
    /\ last.ret

\* the filename field of the display answer of the last step ("" without
\* one, and for an answer that is the image itself)
ServedFilename ==
    IF inp.body.json THEN Or(inp.body.filename, "") ELSE ""

C13_Claimed ==
    (/\ LoopRefreshFailed
     /\ last.preSlept # ""
     /\ sdCardAvailable
     /\ CachePath(last.preSlept) \in DOMAIN sdFiles)
        => /\ last.hadCache
           /\ Len(last.replayed) = 1
           /\ last.replayed[1].id = sdFiles[CachePath(last.preSlept)].id

\* C14 as claimed: what displayCachedContent() gives to displayImage is,
\* byte for byte, the buffer updateContent() displayed and cached, for
\* every image the download accepts
C14_Claimed ==
    pc = "replayed" => last.replayed = last.shown

\* displayImage takes b for a PNG (b is not of the raw bitmap size) and the
\* decoder fails on it, at the header or later
DecodeFails(b) ==
    /\ b.len > 0
    /\ b.len # raw1bppSize
    /\ ~(PngOpens(b) /\ PngDecodes(b))

\* the placeholder screen: cleared, the text drawn, flushed to the panel
Placeholder ==
    <<Cmd("clear", NoBuffer), Cmd("fillScreen", NoBuffer),
      Cmd("PNG decode failed", NoBuffer), Cmd("flush", NoBuffer)>>

\* C15 as claimed: whenever the decode of the buffer given to displayImage
\* fails, at whatever stage, the panel commands end with the placeholder
\* screen
C15_Claimed ==
    (/\ pc = "returned"
     /\ last.shown # <<>>
     /\ DecodeFails(last.shown[1]))
        => /\ Len(epd) >= Len(Placeholder)
           /\ SubSeq(epd, Len(epd) - Len(Placeholder) + 1, Len(epd))
                 = Placeholder

\* the last step called registerDevice() or updateContent() and got false
CallFailed ==
    /\ last.op \in {"registerDevice", "updateContent"}
    /\ ~last.ret

\* C16 as claimed: with no button pressed and the battery fine, every state
\* reached by a failed registration or a failed content refresh is followed
\* by deep sleep (here: on a device that has its registration)
C16_Claimed == (CallFailed /\ isDeviceRegistered(Ctx)) ~> (pc = "asleep")

\* C17 as claimed: whenever the consecutive-error counter is above 5 the
\* device gets to STATE_ERROR (where the caller shows the error screen,
\* clears the counter and sleeps)
C17_Claimed == (consecutiveErrors > 5) ~> (currentState = STATE_ERROR)

\* C18: the consecutive-error counter is never negative; it is 0 right after
\* every registerDevice() and every updateContent() that returned true; and
\* a call leaves it as it was, at 0, or one higher than it was (below the
\* bound the model counts to)
C18_CounterSteps ==
    /\ consecutiveErrors >= 0
    /\ last.postErrors >= 0
    /\ (last.op \in {"registerDevice", "updateContent"} /\ last.ret)
          => last.postErrors = 0
    /\ \/ last.postErrors = last.preErrors
       \/ last.postErrors = 0
       \/ last.postErrors = last.preErrors + 1
    /\ (CallFailed /\ last.postErrors # last.preErrors)
          => last.postErrors = last.preErrors + 1

\* after three failures in a row an updateContent() succeeded and the
\* counter went from 3 to 0
C18_Witness ==
    /\ last.op = "updateContent"
    /\ last.ret
    /\ last.preErrors = 3
    /\ last.postErrors = 0

\* registerDevice() was called in STATE_DEVICE_SETUP and returned false
SetupFailed ==
    /\ pc = "returned"
    /\ last.op = "registerDevice"
    /\ last.preState = STATE_DEVICE_SETUP
    /\ ~last.ret

\* C19 as claimed: every registerDevice() that fails in STATE_DEVICE_SETUP
\* leaves the state at STATE_DEVICE_SETUP and the error counter one higher,
\* whether the WiFi connection or the setup exchange failed
C19_Claimed ==
    SetupFailed
        => /\ last.postState = STATE_DEVICE_SETUP
           /\ last.postErrors = last.preErrors + 1

\* C19: every registerDevice() that fails in STATE_DEVICE_SETUP leaves the
\* state at STATE_DEVICE_SETUP; the error counter is one higher when the
\* setup exchange failed and unchanged when the WiFi connection failed
C19_FailedSetup ==
    SetupFailed
        => /\ last.postState = STATE_DEVICE_SETUP
           /\ currentState = STATE_DEVICE_SETUP
           /\ last.postErrors = IF inp.up THEN last.preErrors + 1
                                 ELSE last.preErrors
           /\ ~inp.up => http = <<>>

\* the WiFi came up and the setup endpoint answered 503 three times: the
\* state is still STATE_DEVICE_SETUP and the counter went from 0 to 1
C19_Witness ==
    /\ SetupFailed
    /\ inp.up
    /\ inp.codes = <<503, 503, 503>>
    /\ Len(SetupGets) = 3
    /\ currentState = STATE_DEVICE_SETUP
    /\ last.preErrors = 0
    /\ consecutiveErrors = 1

\* updateContent() was called with the WiFi down
UpdateWithoutWiFi ==
    /\ last.op = "updateContent"
    /\ ~last.preWiFi

\* C20: an updateContent() called with the WiFi down sends no request, to
\* the display endpoint or to an image URL, sets the state to STATE_OFFLINE
\* and returns false
C20_OfflineNoRequest ==
    UpdateWithoutWiFi
        => /\ http = <<>>
           /\ last.postState = STATE_OFFLINE
           /\ ~last.ret
           /\ last.shown = <<>>

\* the access point went away on a registered, operational device, and the
\* content update of loop() put it into STATE_OFFLINE without a request
C20_Witness ==
    /\ UpdateWithoutWiFi
    /\ pc = "battery"
    /\ last.preState = STATE_OPERATIONAL
    /\ last.preKey # ""
    /\ currentState = STATE_OFFLINE
    /\ http = <<>>
    /\ ~last.ret

\* updateContent() was called with the WiFi up
UpdateWithWiFi ==
    /\ last.op = "updateContent"
    /\ last.preWiFi

\* C21: an updateContent() called with the WiFi up leaves the connectivity
\* state as it found it, whether it succeeds or fails, and every failure
\* leaves the error counter one higher (below the bound the model counts to)
C21_StateKept ==
    UpdateWithWiFi =>
        /\ last.postState = last.preState
        /\ ~last.ret =>
              last.postErrors = Min(last.preErrors + 1, MaxErrors)

\* the display endpoint answered, the image download was started and
\* failed: the state is still STATE_OPERATIONAL and the counter went from
\* 1 to 2
C21_Witness ==
    /\ UpdateWithWiFi
    /\ ~last.ret
    /\ last.dl.started
    /\ last.preState = STATE_OPERATIONAL
    /\ last.postState = STATE_OPERATIONAL
    /\ last.preErrors = 1
    /\ last.postErrors = 2

\* the state was STATE_OFFLINE before the step and is not after it
LeavesOffline ==
    /\ currentState = STATE_OFFLINE
    /\ currentState' # STATE_OFFLINE

\* the step is a pass through the STATE_OFFLINE branch that looked at the
\* network, found it connected and promoted the state
PromotedAtPoll ==
    /\ currentState' = STATE_OPERATIONAL
    /\ last'.op = "poll"
    /\ wifiConnected
    /\ Len(polls') = Len(polls) + 1

\* two looks at the network in a row are at least the interval apart
PollsApart ==
    \A i \in 2..Len(polls) : polls[i] - polls[i - 1] >= ReconnectInterval

\* C22 as claimed: the state leaves STATE_OFFLINE only for
\* STATE_OPERATIONAL and only at a poll that finds the network connected,
\* and successive polls are at least 300000 ms apart
C22_Claimed == [][(LeavesOffline => PromotedAtPoll) /\ PollsApart']_vars

\* C22: while the device neither goes to deep sleep nor restarts, the state
\* leaves STATE_OFFLINE only for STATE_OPERATIONAL and only at a poll that
\* finds the network connected, and successive polls are at least
\* 300000 ms apart
C22_AwakeLeavesAtPoll ==
    [][/\ (LeavesOffline /\ pc' \notin {"asleep", "boot"}) => PromotedAtPoll
       /\ PollsApart']_vars

\* the second poll of this boot found the network and promoted the state
C22_Witness ==
    /\ last.op = "poll"
    /\ last.preState = STATE_OFFLINE
    /\ currentState = STATE_OPERATIONAL
    /\ Len(polls) = 2

\* a panel nothing was drawn on in this step
Blank == [epd |-> <<>>, texts |-> <<>>, shown |-> <<>>]

\* the step ended in deep sleep after the content refresh of loop()
SleptAfterUpdate ==
    /\ pc = "asleep"
    /\ last.op = "updateContent"

\* C23 as claimed: enterSleepMode() gives no command to the panel, and the
\* frame on the panel when deep sleep starts is the one the last successful
\* content display has drawn: a step that ends in deep sleep has drawn
\* nothing, or what displayImage drew for the image of its successful
\* update
C23_Claimed ==
    pc = "asleep" =>
        \/ epd = <<>>
        \/ /\ SleptAfterUpdate
           /\ last.ret
           /\ Len(last.shown) = 1
           /\ epd = displayImage(Blank, last.shown[1]).epd

\* C23: enterSleepMode() gives no command to the panel: the commands of a
\* step that ends in deep sleep are those of what the step did before it
\* called enterSleepMode(): the displayImage of the successful update, the
\* error screen of a critical battery or of a failed registration, nothing
\* for button 4; and the sleep after an update follows a successful
\* updateContent() whose displayImage call is in the record
C23_SleepDrawsNothing ==
    pc = "asleep" =>
        CASE last.op = "updateContent" ->
                /\ last.ret
                /\ Len(last.shown) = 1
                /\ epd = displayImage(Blank, last.shown[1]).epd
          [] last.op = "criticalBattery" ->
                epd = showErrorScreen(Blank, "Critical Battery").epd
          [] last.op = "registerDevice" ->
                /\ ~last.ret
                /\ epd = showErrorScreen(Blank,
                                         "Device Registration Failed").epd
          [] last.op = "b4" -> epd = <<>>
          [] OTHER -> FALSE

\* the update drew a PNG, flushed it, and the device sleeps on it
C23_Witness ==
    /\ SleptAfterUpdate
    /\ last.ret
    /\ epd = <<Cmd("fillScreen", NoBuffer), Cmd("pngDraw", last.shown[1]),
               Cmd("flush", NoBuffer)>>

\* the seconds handed to enterDeepSleep by the step that went to sleep
SleepSeconds == last.sleepFor

\* C24 as claimed: the sleep duration handed to deep sleep is never below a
\* positive minimum, whatever refresh_rate the display answer carried (here
\* with the smallest positive minimum, one second)
C24_Claimed ==
    pc = "asleep" => (SleepSeconds.hi > 0 \/ SleepSeconds.lo >= 1)

\* registerDevice() got a JSON answer from the setup endpoint and
\* registered: apiKey and friendlyId hold what callSetupAPI parsed
SetupTaken ==
    /\ pc = "returned"
    /\ last.op = "registerDevice"
    /\ last.ret
    /\ SetupGets # <<>>
    /\ inp.body.json

\* the six places of the api key and of the friendly id in the answer, in
\* the order top snake_case, top camelCase, device.snake_case,
\* device.camelCase, data.snake_case, data.camelCase
KeyPlaces(body) ==
    <<body.api_key, body.apiKey, body.device_api_key, body.device_apiKey,
      body.data_api_key, body.data_apiKey>>

FriendlyPlaces(body) ==
    <<body.friendly_id, body.friendlyId, body.device_friendly_id,
      body.device_friendlyId, body.data_friendly_id, body.data_friendlyId>>

\* the first value of places that is there and is not the empty string
RECURSIVE FirstNonEmpty(_)
FirstNonEmpty(places) ==
    IF places = <<>> THEN ""
    ELSE IF Head(places) # Absent /\ Head(places)[1] # ""
    THEN Head(places)[1]
    ELSE FirstNonEmpty(Tail(places))

\* the first value of places that is there, empty or not
RECURSIVE FirstPresent(_)
FirstPresent(places) ==
    IF places = <<>> THEN ""
    ELSE IF Head(places) # Absent THEN Head(places)[1]
    ELSE FirstPresent(Tail(places))

\* the first member present at the top level; when there is none or it is
\* empty, the first member present under device and data
TopThenNested(places) ==
    IF FirstPresent(SubSeq(places, 1, 2)) # ""
    THEN FirstPresent(SubSeq(places, 1, 2))
    ELSE FirstPresent(SubSeq(places, 3, 6))

\* C25 as claimed: the parsed apiKey and friendlyId are the first non-empty
\* value in the order of the six places, and so empty only when no place
\* holds a non-empty value
C25_Claimed ==
    SetupTaken =>
        /\ apiKey = FirstNonEmpty(KeyPlaces(inp.body))
        /\ friendlyId = FirstNonEmpty(FriendlyPlaces(inp.body))

\* C25: the parsed apiKey and friendlyId are the first member present
\* (empty or not) of the two top-level places or, when that is missing or
\* empty, the first member present of the four nested places; this is the
\* first non-empty value of the six places whenever no place holds an
\* empty string, and it is empty when no place holds a non-empty value
C25_FirstPresent ==
    SetupTaken =>
        /\ apiKey = TopThenNested(KeyPlaces(inp.body))
        /\ friendlyId = TopThenNested(FriendlyPlaces(inp.body))
        /\ Some("") \notin {KeyPlaces(inp.body)[i] : i \in 1..6}
              => apiKey = FirstNonEmpty(KeyPlaces(inp.body))
        /\ Some("") \notin {FriendlyPlaces(inp.body)[i] : i \in 1..6}
              => friendlyId = FirstNonEmpty(FriendlyPlaces(inp.body))
        /\ FirstNonEmpty(KeyPlaces(inp.body)) = "" => apiKey = ""
        /\ FirstNonEmpty(FriendlyPlaces(inp.body)) = "" => friendlyId = ""

\* the api key was only at data.apiKey and was taken from there
C25_Witness ==
    /\ SetupTaken
    /\ KeyPlaces(inp.body) =
          <<Absent, Absent, Absent, Absent, Absent, Some("k6")>>
    /\ apiKey = "k6"

\* registerDevice() went on to callSetupAPI(): the WiFi came up and no
\* registration was held
SetupCalled ==
    /\ pc = "returned"
    /\ last.op = "registerDevice"
    /\ inp.up
    /\ ~last.preReg

\* the status the setup call ended on: that of its last GET
SetupHttpStatus == SetupGets[Len(SetupGets)].code

\* the status of the answer: the status member, or without one 200 when
\* success or ok is true
SetupStatusOk(body) ==
    \/ body.status = Some(200)
    \/ /\ body.status = Absent
       /\ (body.success = Some(TRUE) \/ body.ok = Some(TRUE))

\* C26: callSetupAPI returns success exactly when the HTTP status is 200,
\* the body is JSON, and the status member is 200 (or, without a status
\* member, success or ok is true) or the parsed apiKey and friendlyId are
\* both non-empty
C26_SuccessRule ==
    SetupCalled =>
        /\ SetupGets # <<>>
        /\ last.ret <=>
              /\ SetupHttpStatus = 200
              /\ inp.body.json
              /\ \/ SetupStatusOk(inp.body)
                 \/ /\ TopThenNested(KeyPlaces(inp.body)) # ""
                    /\ TopThenNested(FriendlyPlaces(inp.body)) # ""

\* an answer with status 500 and success true, api key at the top level and
\* friendly id under data: the call succeeded on the two values
C26_Witness ==
    /\ SetupCalled
    /\ last.ret
    /\ inp.body.json
    /\ inp.body.status = Some(500)
    /\ inp.body.success = Some(TRUE)
    /\ apiKey = "K"
    /\ friendlyId = "F"

\* the display endpoint answered the last step's call with a 200 whose body
\* is not JSON
DirectAnswer ==
    /\ last.op = "updateContent"
    /\ DisplayGets # <<>>
    /\ DisplayGets[Len(DisplayGets)].code = 200
    /\ ~inp.body.json

\* the GETs of the last step that fetched an image
ImageGets == SelectSeq(http, LAMBDA g : g.from = "downloadImageAutoAlloc")

\* r is what callDisplayAPI left: success, the display endpoint as image
\* URL, no filename, no firmware signal
DirectOutcome(r) ==
    /\ r.ret
    /\ r.resp.status = 200
    /\ r.resp.imageUrl = DisplayUrl
    /\ r.resp.filename = ""
    /\ ~r.resp.resetFirmware
    /\ ~r.resp.updateFirmware
    /\ r.resp.refreshRate = refreshRate
    /\ r.refreshRate = refreshRate
    /\ r.apiKey = apiKey
    /\ r.friendlyId = friendlyId
    /\ r.prefs = prefs

\* C27: when the display endpoint answers 200 with a body that is not JSON,
\* callDisplayAPI returns success with the display endpoint itself as image
\* URL, an empty filename and no firmware signal, and leaves the refresh
\* rate and the registration as they were; updateContent() then fetches the
\* image from the display endpoint and caches nothing
C27_DirectImage ==
    [][(pc = "entry" /\ pc' = "returned" /\ DirectAnswer')
          => /\ DirectOutcome(callDisplayAPI(Ctx, inp'))
             /\ Len(ImageGets') = 1
             /\ ImageGets'[1].url = DisplayUrl
             /\ last'.cached = <<>>
             /\ last'.ret => lastImageFilename' = ""
             /\ refreshRate' = refreshRate
             /\ apiKey' = apiKey
             /\ friendlyId' = friendlyId
             /\ prefs' = prefs
             /\ resetPending' = resetPending]_vars

\* b.png was the last image shown; the display endpoint answered with the
\* image itself, which was fetched from the endpoint and shown under no name
C27_Witness ==
    /\ pc = "returned"
    /\ DirectAnswer
    /\ last.ret
    /\ last.preFile = "b.png"
    /\ lastImageFilename = ""
    /\ ImageGets = <<Get("downloadImageAutoAlloc", DisplayUrl, 200)>>

\* updateContent() gave a buffer that is not empty to displayImage
ImageDisplayed ==
    /\ pc = "returned"
    /\ last.shown # <<>>
    /\ last.shown[1].len > 0

\* the commands of a buffer drawn as it is, as one full-frame bitmap
DrawnVerbatim(b) ==
    <<Cmd("fillScreen", NoBuffer), Cmd("drawBitmap", b),
      Cmd("flush", NoBuffer)>>

\* the commands the PNG path can end in: the placeholder of a PNG that does
\* not open, the decoded PNG, a decode that was given up
DrawnAsPng(b) ==
    {Placeholder,
     <<Cmd("fillScreen", NoBuffer), Cmd("pngDraw", b),
       Cmd("flush", NoBuffer)>>,
     <<Cmd("fillScreen", NoBuffer), Cmd("pngAbort", b)>>}

\* C28: displayImage draws the buffer as it is, as one full-frame 1-bit
\* bitmap and without the PNG decoder, exactly when the buffer has
\* DISPLAY_WIDTH * DISPLAY_HEIGHT / 8 = 15000 bytes; a buffer of any other
\* size that is not empty goes to the PNG path
C28_RawExactly ==
    /\ raw1bppSize = 15000
    /\ ImageDisplayed =>
          IF last.shown[1].len = 15000
          THEN epd = DrawnVerbatim(last.shown[1])
          ELSE epd \in DrawnAsPng(last.shown[1])

\* a buffer of 15000 bytes was drawn as a bitmap
C28_Witness ==
    /\ ImageDisplayed
    /\ last.shown[1].len = 15000
    /\ epd = DrawnVerbatim(last.shown[1])

(***************************************************************************)
(* C29: the placement of a PNG                                             *)
(***************************************************************************)
\* displayImage has read the header of a PNG of inp.w x inp.h
PngPlaced == pc = "decoding"

\* floor(w * s) and floor(h * s) for the exact s = min(400 / w, 300 / h)
ExactTarget(w, h) ==
    IF DISPLAY_WIDTH * h <= DISPLAY_HEIGHT * w
    THEN <<DISPLAY_WIDTH, (DISPLAY_WIDTH * h) \div w>>
    ELSE <<(DISPLAY_HEIGHT * w) \div h, DISPLAY_HEIGHT>>

\* C29 as stated: for every PNG of w x h, w, h >= 1, the target size is
\* (floor(w * s), floor(h * s)) with s = min(400 / w, 300 / h), the offsets
\* are ((400 - tW) div 2, (300 - tH) div 2), the target fits in the frame
\* with offsets that are not negative, and a PNG of 200 x 100 gets the scale
\* 2, the target 400 x 200 and the offsets (0, 50)
C29_Claimed ==
    PngPlaced =>
        /\ <<pngCtx.tW, pngCtx.tH>> = ExactTarget(inp.w, inp.h)
        /\ pngCtx.x0 = (DISPLAY_WIDTH - pngCtx.tW) \div 2
        /\ pngCtx.y0 = (DISPLAY_HEIGHT - pngCtx.tH) \div 2
        /\ pngCtx.tW <= DISPLAY_WIDTH /\ pngCtx.tH <= DISPLAY_HEIGHT
        /\ pngCtx.x0 >= 0 /\ pngCtx.y0 >= 0
        /\ (inp.w = 200 /\ inp.h = 100) =>
               /\ pngCtx.sX = [m |-> 8388608, k |-> 22]
               /\ <<pngCtx.tW, pngCtx.tH>> = <<400, 200>>
               /\ <<pngCtx.x0, pngCtx.y0>> = <<0, 50>>

(***************************************************************************)
(* C30: the threshold and the invert flag                                  *)
(***************************************************************************)
\* pngDrawToEPD has decided on a pixel
PixelDecided == pc = "drawn"

\* C30: for every luma in 0..255 the decision with the invert flag set is
\* the opposite of the decision with the flag clear; luma 128 is white with
\* the flag clear and black with it set, luma 127 is black with the flag
\* clear and white with it set; and the decision pngDrawToEPD took on a pixel
\* is the one for the flag setup() loaded
C30_InvertOpposite ==
    /\ \A lum \in 0..255 : Black(lum, TRUE) = ~Black(lum, FALSE)
    /\ ~Black(128, FALSE) /\ Black(128, TRUE)
    /\ Black(127, FALSE) /\ ~Black(127, TRUE)
    /\ PixelDecided =>
           /\ pngCtx.invert = invertDisplayFlag
           /\ inp.black = Black(inp.lum, invertDisplayFlag)
           /\ inp.black # Black(inp.lum, ~invertDisplayFlag)
           /\ inp.lum = 128 => (inp.black <=> invertDisplayFlag)
           /\ inp.lum = 127 => (inp.black <=> ~invertDisplayFlag)

\* a pixel of luma 128 was taken for black because the flag is set
C30_Witness ==
    /\ PixelDecided
    /\ inp.lum = 128
    /\ invertDisplayFlag
    /\ inp.black

(***************************************************************************)
(* C31: what a factory reset leaves                                        *)
(***************************************************************************)
\* the step was a factory reset: handleFactoryReset (button or serial
\* command) or the reset request of the portal
FactoryResetDone == last.op \in {"factoryReset", "reset"}

PersistedKeys ==
    {"wifi_ssid", "wifi_password", "api_key", "friendly_id", "refresh_rate",
     "invert"}

\* the files of the cache store (the cache is all this SD card is written
\* for)
CacheEntries == DOMAIN sdFiles

\* C31 as stated: after a factory reset none of the persisted keys is left
\* in the preference store and no cached image is left in the cache store
C31_Claimed ==
    FactoryResetDone
        => /\ PersistedKeys \cap DOMAIN prefs = {}
           /\ CacheEntries = {}

(***************************************************************************)
(* C32: button 4 held at power-on                                          *)
(***************************************************************************)
\* setup() has run with button 4 held down from power-on, for as long as
\* setup() takes and longer than 5 seconds
BootedHolding4 ==
    /\ last.op \in {"setup", "setupReset"}
    /\ inp.held4

\* C32 as stated: whenever button 4 is held at boot for more than 5 seconds,
\* setup() reaches handleFactoryReset()
C32_Claimed == BootedHolding4 => last.op = "setupReset"

(***************************************************************************)
(* C33: registration before refresh                                        *)
(***************************************************************************)
\* the last step sent a request to the display endpoint
DisplayRequested == DisplayGets # <<>>

\* C33: a request to the display endpoint is sent only by a step that found
\* a non-empty access key, and a step of the program taken in DeviceSetup
\* (where a cycle that starts there stays until registerDevice() is back)
\* sends none
C33_RegisteredFirst ==
    [][/\ DisplayRequested' => last'.preKey # ""
       /\ (currentState = STATE_DEVICE_SETUP /\ pc' # pc)
              => ~DisplayRequested']_vars

\* a device registered by the setup endpoint asked the display endpoint
C33_Witness ==
    /\ DisplayRequested
    /\ last.op = "updateContent"
    /\ last.preState = STATE_OPERATIONAL
    /\ last.preKey = "K"
    /\ ~secrets.TRMNL_API_KEY

(***************************************************************************)
(* C34: the state after the startup sequence                               *)
(***************************************************************************)
\* setup() has run performStartupSequence()
StartedUp == last.op = "setup"

\* an SSID is built in or stored
CredentialsPresent ==
    \/ secrets.WIFI_SSID
    \/ "wifi_ssid" \in DOMAIN prefs /\ prefs["wifi_ssid"] # ""

RegistrationPresent == apiKey # "" /\ friendlyId # ""

\* C34: after the startup sequence the state is WiFiSetup exactly when no
\* WiFi credentials are present, DeviceSetup exactly when credentials are
\* present and the device is not registered, Operational exactly when both
\* are there; it is never Uninitialized, Error or Offline
C34_StartupState ==
    StartedUp =>
        /\ currentState = STATE_WIFI_SETUP <=> ~CredentialsPresent
        /\ currentState = STATE_DEVICE_SETUP
               <=> (CredentialsPresent /\ ~RegistrationPresent)
        /\ currentState = STATE_OPERATIONAL
               <=> (CredentialsPresent /\ RegistrationPresent)
        /\ currentState \notin {STATE_UNINITIALIZED, STATE_ERROR,
                                STATE_OFFLINE}

\* a device with stored credentials and no registration started up in
\* DeviceSetup
C34_Witness ==
    /\ StartedUp
    /\ ~secrets.WIFI_SSID
    /\ CredentialsPresent
    /\ ~RegistrationPresent
    /\ currentState = STATE_DEVICE_SETUP

(***************************************************************************)
(* C35: the destination rows of a source row                               *)
(***************************************************************************)
\* pngDrawToEPD has drawn the line of source row inp.y
RowDrawn == pc = "rowDrawn"

\* floor(y * s) as the callback computes it
ScaledRow(y) == IF y = 0 THEN 0 ELSE F32FloorMul(y, pngCtx.sY)

\* C35 as stated: the line of source row y is drawn to exactly the rows of
\* [y0 + floor(y*s), y0 + floor((y+1)*s) - 1] that lie inside the frame, so
\* a row whose range is empty draws no destination row
C35_Claimed ==
    RowDrawn =>
        inp.rows = {dy \in (pngCtx.y0 + ScaledRow(inp.y))
                           ..(pngCtx.y0 + ScaledRow(inp.y + 1) - 1) :
                       dy >= 0 /\ dy < DISPLAY_HEIGHT}

(***************************************************************************)
(* C36: what a successful registerDevice() leaves                          *)
(***************************************************************************)
\* registerDevice() has returned true
RegisterSucceeded == last.op = "registerDevice" /\ last.ret

\* C36 as stated: whenever registerDevice() returns true, apiKey and
\* friendlyId are both non-empty, in memory and in the preference store
C36_Claimed ==
    RegisterSucceeded
        => /\ apiKey # ""
           /\ friendlyId # ""
           /\ PersistedApiKey # ""
           /\ PersistedFriendlyId # ""

(***************************************************************************)
(* C37: Operational and registration                                       *)
(***************************************************************************)
\* C37 as stated: in every reachable state, Operational implies that apiKey
\* and friendlyId are both non-empty
C37_Claimed ==
    currentState = STATE_OPERATIONAL => (apiKey # "" /\ friendlyId # "")

(***************************************************************************)
(* C38: where Offline is entered from                                      *)
(***************************************************************************)
\* the step moves the state to Offline
BecomesOffline ==
    currentState # STATE_OFFLINE /\ currentState' = STATE_OFFLINE

\* C38 as stated: the state becomes Offline only from Operational; no step
\* moves WiFiSetup, DeviceSetup, Uninitialized or Error to Offline
C38_Claimed ==
    [][BecomesOffline => currentState = STATE_OPERATIONAL]_vars

(***************************************************************************)
(* C39: image buffers                                                      *)
(***************************************************************************)
\* updateContent() or displayCachedContent() has returned
BufferCallBack == last.op \in {"updateContent", "displayCachedContent"}

\* buffers allocated and not freed after the first i heap events of the step
LiveAfter(i) ==
    Cardinality({j \in 1..i : last.mem[j] = "malloc"})
        - Cardinality({j \in 1..i : last.mem[j] = "free"})

\* C39: when updateContent() or displayCachedContent() is back, every buffer
\* that was allocated has been freed exactly once (none is left, none is
\* freed that is not allocated) and no buffer was read or written after its
\* free
C39_BuffersBalance ==
    BufferCallBack =>
        /\ LiveAfter(Len(last.mem)) = 0
        /\ \A i \in 1..Len(last.mem) :
              /\ last.mem[i] = "malloc" => LiveAfter(i - 1) = 0
              /\ last.mem[i] \in {"use", "free"} => LiveAfter(i - 1) = 1

\* a download that was cut short after malloc: the buffer was freed inside
\* downloadImageAutoAlloc and not again by updateContent()
C39_Witness ==
    /\ last.op = "updateContent"
    /\ ~last.ret
    /\ last.dl.allocSize > 0
    /\ last.dl.bytesRead > 0
    /\ last.mem = <<"malloc", "free">>

(***************************************************************************)
(* C40: success and rendering                                              *)
(***************************************************************************)
\* updateContent() gave displayImage a buffer the decoder failed on
UpdateUndecodable ==
    /\ last.op = "updateContent"
    /\ last.shown # <<>>
    /\ DecodeFails(last.shown[1])

\* C40 as stated: when displayImage hits a decode failure, updateContent()
\* does not report success (it returns false) and does not write the bytes
\* to the cache
C40_Claimed ==
    UpdateUndecodable
        => /\ ~last.ret
           /\ last.cached = <<>>

====
